---- MODULE Spec2Model ----
(***************************************************************************)
(* Model of the lxc_autoscaler evaluation-and-scaling control loop:        *)
(* MetricsCollector (metrics/collector.py), ScalingEngine                  *)
(* (scaling/engine.py), ScalingHistory (scaling/models.py) and the daemon  *)
(* loops (core/daemon.py).                                                 *)
(*                                                                         *)
(* One tick of the main loop is split into the metrics collection, the     *)
(* synchronous safety gate + decision generation, and per decision the     *)
(* start and the completion of the Gateway resize call.                    *)
(*                                                                         *)
(* Spec        the main loop against every Gateway answer                  *)
(* SpecDaemon  the main loop and the health check loop                     *)
(* SpecGate    _check_cluster_safety over node snapshots                   *)
(* SpecDecide  _evaluate_container_scaling over sample histories           *)
(* SpecHistory ScalingHistory.record_operation over sequences of operations*)
(* SpecBuffer  ContainerMetrics.add_metrics / get_average_metrics          *)
(* SpecCollect collect_all_metrics called by both loops, requests in flight*)
(* SpecStop    the main loop and AutoscalerDaemon.stop                     *)
(* SpecReload  the main loop and the SIGHUP configuration reload           *)
(* SpecParse   ConfigManager._parse_container_config over container entries*)
(* SpecCooldown the main loop under the scheduling of the event loop      *)
(* SpecFanOut  the semaphore of _collect_container_metrics, both callers    *)
(***************************************************************************)
EXTENDS Integers, Sequences, FiniteSets, TLC

VARIABLES
    now,                \* time.time(), in seconds
    config,             \* the AutoscalerConfig the engine and collector hold
    gw,                 \* Gateway side: per vmid its hosting node, cores, memory
    node_metrics,       \* MetricsCollector.node_metrics      (dict node -> NodeMetrics)
    container_metrics,  \* MetricsCollector.container_metrics (dict vmid -> ContainerMetrics)
    active_operations,  \* ScalingEngine.active_operations    (dict vmid -> ScalingOperation)
    scaling_history,    \* ScalingEngine.scaling_history      (dict vmid -> ScalingHistory)
    pc,                 \* position of the main loop inside evaluate_and_scale
    tick_gate,          \* result of _check_cluster_safety in the current/last tick
    decisions,          \* local `decisions` of evaluate_and_scale
    didx,               \* next decision to execute
    executed_decisions, \* local `executed_decisions` of evaluate_and_scale
    last_result,        \* what the last ended evaluate_and_scale returned or raised
    resize_log,         \* every client.resize_container call issued so far
    probes,             \* health probes run so far
    probe_decisions,    \* local `decisions` of a running ScalingEngine.health_check
    resume,             \* where the main loop is suspended while the probe runs
    gateway,            \* what the Gateway may answer in this run
    ticks,              \* ticks started
    cycles_completed,   \* AutoscalerDaemon.cycles_completed
    cycles_failed,      \* AutoscalerDaemon.cycles_failed
    recorded,           \* every operation handed to ScalingHistory.record_operation
    inflight,           \* per caller of collect_all_metrics: the Gateway answers it awaits
    daemon              \* AutoscalerDaemon: its own config reference and its reloads so far

vars == <<now, config, gw, node_metrics, container_metrics, active_operations,
          scaling_history, pc, tick_gate, decisions, didx,
          executed_decisions, last_result, resize_log, probes, probe_decisions,
          resume, gateway,
          ticks, cycles_completed, cycles_failed, recorded, inflight, daemon>>

----------------------------------------------------------------------------
(* Bounds of the model *)

MaxTicks == 2
MaxProbes == 1

(* Python's None for Optional[int] / Optional[float] fields *)
None == -1

(* The tasks that call collect_all_metrics: _main_loop through
   evaluate_and_scale, _health_check_loop through ScalingEngine.health_check *)
Callers == {"main", "probe"}

(* asyncio.Semaphore(5) of _collect_container_metrics *)
FanOutLimit == 5

(* No collection is waiting for the Gateway.  Of a caller's last collection
   the nodes list_nodes reported online and the answers to its container
   requests are kept.  While a collection runs, holding are the entries whose
   _collect_single_container_metrics holds the semaphore of the call and
   queued those that wait for it. *)
NoCollection ==
    [c \in Callers |-> [busy |-> FALSE, online |-> {}, answers |-> <<>>,
                        holding |-> {}, queued |-> {}]]

(* Seconds the clock advances per step: the minimum monitoring interval *)
Quantum == 30

Vmids == {101, 102}
Nodes == {"pve1"}

----------------------------------------------------------------------------
(* dict helpers *)

Put(d, k, v) == [x \in (DOMAIN d) \cup {k} |-> IF x = k THEN v ELSE d[x]]

(* a dictionary that never forgets a key *)
Del_Keeps(d, k) == d

Del(d, k) == [x \in (DOMAIN d) \ {k} |-> d[x]]
EmptyDict == [x \in {} |-> None]

(* min() that forgets its second argument: a proposed target is not clamped *)
Min_NoClamp(a, b) == a

Min(a, b) == IF a <= b THEN a ELSE b
Max(a, b) == IF a >= b THEN a ELSE b

RECURSIVE SumSeq(_)
SumSeq(s) == IF s = <<>> THEN 0 ELSE Head(s) + SumSeq(Tail(s))

LastN(s, n) == SubSeq(s, Len(s) - n + 1, Len(s))

----------------------------------------------------------------------------
(* Configuration (config/models.py) *)

ScalingThresholds ==
    [cpu_scale_up |-> 80, cpu_scale_down |-> 30,
     memory_scale_up |-> 85, memory_scale_down |-> 40]

ResourceLimits ==
    [min_cpu_cores |-> 1, max_cpu_cores |-> 3,
     min_memory_mb |-> 512, max_memory_mb |-> 1024,
     cpu_step |-> 1, memory_step_mb |-> 256]

(* Container 101 is evaluated on its newest sample, container 102 on the
   average of its last two *)
ContainerConfig(v) ==
    [vmid |-> v, enabled |-> TRUE,
     thresholds |-> ScalingThresholds, limits |-> ResourceLimits,
     cooldown_seconds |-> 60, evaluation_periods |-> IF v = 101 THEN 1 ELSE 2]

SafetyConfig(hp) ==
    [max_concurrent_operations |-> 3,
     max_cpu_usage_threshold |-> 95,
     max_memory_usage_threshold |-> 95,
     enable_host_protection |-> hp]

AutoscalerConfig(cs, dry, hp) ==
    [containers |-> cs, dry_run |-> dry, safety |-> SafetyConfig(hp)]

(* Container lists the loader accepts: _parse_config appends every entry and
   never compares vmids, so a list naming a vmid twice is accepted. *)
BothContainers == <<ContainerConfig(101), ContainerConfig(102)>>
TwiceContainer == <<ContainerConfig(102), ContainerConfig(102)>>
OneDisabled == <<ContainerConfig(101), [ContainerConfig(102) EXCEPT !.enabled = FALSE]>>

(* The configurations the daemon is started with; the first one allows a
   single operation at a time, the least SafetyConfig accepts *)
Configs ==
    { [AutoscalerConfig(BothContainers, FALSE, TRUE)
           EXCEPT !.safety.max_concurrent_operations = 1],
      AutoscalerConfig(TwiceContainer, FALSE, FALSE),
      AutoscalerConfig(OneDisabled, TRUE, TRUE) }

EnabledContainers(cfg) == SelectSeq(cfg.containers, LAMBDA c : c.enabled)

----------------------------------------------------------------------------
(* Exact quotients: Python computes sum(...) / len(...) in floating point and
   compares the quotient with a threshold; the quotients of the small integers
   used here are compared exactly as num/den. *)

Rat(n, d) == [num |-> n, den |-> d]
RatLT(r, k) == r.num < k * r.den
RatGT(r, k) == r.num > k * r.den
RatGE(r, k) == r.num >= k * r.den
RatLE(r, k) == r.num <= k * r.den

----------------------------------------------------------------------------
(* Metrics models (metrics/models.py) *)

(* ResourceMetrics.from_rrd_data: the newest RRD point and the container config.
   The point carries its time, the usage as percentages and maxmem in MB. *)
from_rrd_data(rrd_point, cfg) ==
    [timestamp |-> rrd_point.time,
     cpu_usage_percent |-> rrd_point.cpu,
     memory_usage_percent |-> IF rrd_point.maxmem > 0 THEN rrd_point.mem ELSE 0,
     memory_total_mb |-> rrd_point.maxmem,
     cpu_cores |-> cfg.cores]

NoMetrics ==
    [timestamp |-> None, cpu_usage_percent |-> None, memory_usage_percent |-> None,
     memory_total_mb |-> None, cpu_cores |-> None]

(* ContainerMetrics(vmid, node, name, status, uptime) *)
ContainerMetrics(node, status, uptime) ==
    [node |-> node, status |-> status, uptime |-> uptime,
     current_metrics |-> NoMetrics, historical_metrics |-> <<>>]

(* Ring-buffer capacity of ContainerMetrics.add_metrics *)
MaxHistory == 100

(* add_metrics trimming from the wrong end: the newest sample is evicted *)
add_metrics_KeepsOldest(cm, metrics) ==
    LET appended == Append(cm.historical_metrics, metrics)
    IN  [cm EXCEPT !.current_metrics = metrics,
                   !.historical_metrics =
                       IF Len(appended) > MaxHistory
                       THEN SubSeq(appended, 1, MaxHistory)
                       ELSE appended]

add_metrics(cm, metrics) ==
    LET appended == Append(cm.historical_metrics, metrics)
    IN  [cm EXCEPT !.current_metrics = metrics,
                   !.historical_metrics =
                       IF Len(appended) > MaxHistory
                       THEN LastN(appended, MaxHistory)
                       ELSE appended]

(* The None result of get_average_metrics *)
NoAverage ==
    [cpu_usage_percent |-> Rat(None, 1), memory_usage_percent |-> Rat(None, 1),
     memory_total_mb |-> None, cpu_cores |-> None]

(* get_average_metrics averaging the whole buffer instead of the last
   `periods` samples *)
get_average_metrics_WholeBuffer(cm, periods) ==
    IF Len(cm.historical_metrics) < periods
    THEN NoAverage
    ELSE LET recent_metrics == cm.historical_metrics
             latest == recent_metrics[Len(recent_metrics)]
         IN  [cpu_usage_percent |->
                  Rat(SumSeq([i \in 1..Len(recent_metrics) |->
                                  recent_metrics[i].cpu_usage_percent]),
                      Len(recent_metrics)),
              memory_usage_percent |->
                  Rat(SumSeq([i \in 1..Len(recent_metrics) |->
                                  recent_metrics[i].memory_usage_percent]),
                      Len(recent_metrics)),
              memory_total_mb |-> latest.memory_total_mb,
              cpu_cores |-> latest.cpu_cores]

(* ContainerMetrics.get_average_metrics; the averaged percentages are exact
   quotients. *)
get_average_metrics(cm, periods) ==
    IF Len(cm.historical_metrics) < periods
    THEN NoAverage
    ELSE LET recent_metrics == LastN(cm.historical_metrics, periods)
             latest == recent_metrics[Len(recent_metrics)]
         IN  [cpu_usage_percent |->
                  Rat(SumSeq([i \in 1..Len(recent_metrics) |->
                                  recent_metrics[i].cpu_usage_percent]),
                      Len(recent_metrics)),
              memory_usage_percent |->
                  Rat(SumSeq([i \in 1..Len(recent_metrics) |->
                                  recent_metrics[i].memory_usage_percent]),
                      Len(recent_metrics)),
              memory_total_mb |-> latest.memory_total_mb,
              cpu_cores |-> latest.cpu_cores]

(* NodeMetrics.from_node_status *)
NodeMetrics(cpu, mem) == [cpu_usage_percent |-> cpu, memory_usage_percent |-> mem]

RECURSIVE SumOver(_, _)
SumOver(f, S) ==
    IF S = {} THEN 0
    ELSE LET x == CHOOSE y \in S : TRUE IN f[x] + SumOver(f, S \ {x})

(* MetricsCollector._build_cluster_metrics over a node_metrics dict *)
_build_cluster_metrics(nm) ==
    LET ns == DOMAIN nm
    IN  [node_metrics |-> nm,
         avg_cpu_usage_percent |->
             IF ns # {}
             THEN Rat(SumOver([n \in ns |-> nm[n].cpu_usage_percent], ns), Cardinality(ns))
             ELSE Rat(0, 1),
         avg_memory_usage_percent |->
             IF ns # {}
             THEN Rat(SumOver([n \in ns |-> nm[n].memory_usage_percent], ns), Cardinality(ns))
             ELSE Rat(0, 1)]

(* The availability of an empty snapshot taken as that of an idle cluster *)
get_resource_availability_IdleWhenEmpty(cluster_metrics) ==
    IF DOMAIN cluster_metrics.node_metrics = {}
    THEN [cpu_available_percent |-> Rat(100, 1), memory_available_percent |-> Rat(100, 1)]
    ELSE LET c == cluster_metrics.avg_cpu_usage_percent
             m == cluster_metrics.avg_memory_usage_percent
         IN  [cpu_available_percent |-> Rat(Max(0, 100 * c.den - c.num), c.den),
              memory_available_percent |-> Rat(Max(0, 100 * m.den - m.num), m.den)]

(* ClusterMetrics.get_resource_availability *)
get_resource_availability(cluster_metrics) ==
    IF DOMAIN cluster_metrics.node_metrics = {}
    THEN [cpu_available_percent |-> Rat(0, 1), memory_available_percent |-> Rat(0, 1)]
    ELSE LET c == cluster_metrics.avg_cpu_usage_percent
             m == cluster_metrics.avg_memory_usage_percent
         IN  [cpu_available_percent |-> Rat(Max(0, 100 * c.den - c.num), c.den),
              memory_available_percent |-> Rat(Max(0, 100 * m.den - m.num), m.den)]

----------------------------------------------------------------------------
(* Cluster-safety gate (scaling/engine.py) *)

(* The gate with non-strict comparisons *)
_check_cluster_safety_NonStrict(safety, cluster_metrics) ==
    IF ~safety.enable_host_protection THEN TRUE
    ELSE IF \E n \in DOMAIN cluster_metrics.node_metrics :
                \/ cluster_metrics.node_metrics[n].cpu_usage_percent
                       >= safety.max_cpu_usage_threshold
                \/ cluster_metrics.node_metrics[n].memory_usage_percent
                       >= safety.max_memory_usage_threshold
         THEN FALSE
    ELSE LET availability == get_resource_availability(cluster_metrics)
         IN  IF RatLE(availability.cpu_available_percent, 10) THEN FALSE
             ELSE IF RatLE(availability.memory_available_percent, 10) THEN FALSE
             ELSE TRUE

_check_cluster_safety(safety, cluster_metrics) ==
    IF ~safety.enable_host_protection THEN TRUE
    ELSE IF \E n \in DOMAIN cluster_metrics.node_metrics :
                \/ cluster_metrics.node_metrics[n].cpu_usage_percent
                       > safety.max_cpu_usage_threshold
                \/ cluster_metrics.node_metrics[n].memory_usage_percent
                       > safety.max_memory_usage_threshold
         THEN FALSE
    ELSE LET availability == get_resource_availability(cluster_metrics)
         IN  IF RatLT(availability.cpu_available_percent, 10) THEN FALSE
             ELSE IF RatLT(availability.memory_available_percent, 10) THEN FALSE
             ELSE TRUE


----------------------------------------------------------------------------
(* Scaling models (scaling/models.py) *)

(* The constructor with the two target arguments exchanged *)
ScalingDecision_TargetsSwapped(vmid, node, action, reason, cur_c, cur_m, tgt_c, tgt_m) ==
    [vmid |-> vmid, node |-> node, action |-> action, reason |-> reason,
     current_cpu_cores |-> cur_c, current_memory_mb |-> cur_m,
     target_cpu_cores |-> tgt_m, target_memory_mb |-> tgt_c]

ScalingDecision(vmid, node, action, reason, cur_cpu, cur_mem, tgt_cpu, tgt_mem) ==
    [vmid |-> vmid, node |-> node, action |-> action, reason |-> reason,
     current_cpu_cores |-> cur_cpu, current_memory_mb |-> cur_mem,
     target_cpu_cores |-> tgt_cpu, target_memory_mb |-> tgt_mem]

(* ScalingDecision.requires_scaling *)
requires_scaling(decision) == decision.action # "no_action"

(* ScalingOperation(decision, started_at) *)
ScalingOperation(decision, started_at) ==
    [decision |-> decision, started_at |-> started_at,
     completed_at |-> None, success |-> "None", error_message |-> "None"]

complete_success(operation, t) ==
    [operation EXCEPT !.completed_at = t, !.success = "True"]

complete_failure(operation, t, error_message) ==
    [operation EXCEPT !.completed_at = t, !.success = "False",
                      !.error_message = error_message]

(* ScalingHistory(vmid) *)
ScalingHistory ==
    [last_scaling_time |-> None, last_scaling_action |-> "None",
     operation_count |-> 0, success_count |-> 0, failure_count |-> 0]

(* record_operation keeping the time of successful operations only *)
record_operation_SuccessOnly(history, operation) ==
    IF operation.completed_at = None
    THEN history
    ELSE [history EXCEPT
             !.last_scaling_time =
                 IF operation.success = "True" THEN operation.completed_at ELSE @,
             !.last_scaling_action =
                 IF operation.success = "True" THEN operation.decision.action ELSE @,
             !.operation_count = @ + 1,
             !.success_count = IF operation.success = "True" THEN @ + 1 ELSE @,
             !.failure_count = IF operation.success = "True" THEN @ ELSE @ + 1]

(* record_operation without the is_completed test: an operation that has not
   completed is counted, as a failure because its success is not True *)
record_operation_CountsIncomplete(history, operation) ==
    [history EXCEPT
        !.last_scaling_time = operation.completed_at,
        !.last_scaling_action = operation.decision.action,
        !.operation_count = @ + 1,
        !.success_count = IF operation.success = "True" THEN @ + 1 ELSE @,
        !.failure_count = IF operation.success = "True" THEN @ ELSE @ + 1]

(* ScalingHistory.record_operation *)
record_operation(history, operation) ==
    IF operation.completed_at = None
    THEN history
    ELSE [history EXCEPT
             !.last_scaling_time = operation.completed_at,
             !.last_scaling_action = operation.decision.action,
             !.operation_count = @ + 1,
             !.success_count = IF operation.success = "True" THEN @ + 1 ELSE @,
             !.failure_count = IF operation.success = "True" THEN @ ELSE @ + 1]

(* is_in_cooldown with the comparison turned round *)
is_in_cooldown_Inverted(history, cooldown_seconds, t) ==
    IF history.last_scaling_time = None
    THEN FALSE
    ELSE (t - history.last_scaling_time) > cooldown_seconds

(* ScalingHistory.is_in_cooldown at time.time() = t *)
is_in_cooldown(history, cooldown_seconds, t) ==
    IF history.last_scaling_time = None
    THEN FALSE
    ELSE (t - history.last_scaling_time) < cooldown_seconds

(* self.scaling_history.get(vmid, ScalingHistory(vmid=vmid)) *)
HistoryOf(sh, vmid) == IF vmid \in DOMAIN sh THEN sh[vmid] ELSE ScalingHistory

----------------------------------------------------------------------------
(* Decision logic (scaling/engine.py) *)

(* ScalingReason has no member NO_ACTION: evaluating ScalingReason.NO_ACTION in
   the last return of _make_scaling_decision raises AttributeError.  The raise
   is carried as a value of the decision type. *)
AttributeErrorRaised(vmid, node) ==
    ScalingDecision(vmid, node, "AttributeError", "AttributeError", None, None, None, None)

Raises(decision) == decision.action = "AttributeError"

(* The chain with the memory scale-up test ahead of the cpu scale-up test *)
ThresholdBranch_MemoryFirst(container_config, eval_metrics) ==
    LET thresholds == container_config.thresholds
    IN  IF RatGE(eval_metrics.memory_usage_percent, thresholds.memory_scale_up)
        THEN "memory_scale_up"
        ELSE IF RatGE(eval_metrics.cpu_usage_percent, thresholds.cpu_scale_up)
        THEN "cpu_scale_up"
        ELSE IF RatLE(eval_metrics.cpu_usage_percent, thresholds.cpu_scale_down)
        THEN "cpu_scale_down"
        ELSE IF RatLE(eval_metrics.memory_usage_percent, thresholds.memory_scale_down)
        THEN "memory_scale_down"
        ELSE "none"

(* The chain with a cpu scale-up test that also asks for room below max_cpu_cores,
   so that a container at the bound goes on to the memory test *)
ThresholdBranch_FallsThrough(container_config, eval_metrics) ==
    LET thresholds == container_config.thresholds
    IN  IF /\ RatGE(eval_metrics.cpu_usage_percent, thresholds.cpu_scale_up)
           /\ eval_metrics.cpu_cores < container_config.limits.max_cpu_cores
        THEN "cpu_scale_up"
        ELSE IF RatGE(eval_metrics.memory_usage_percent, thresholds.memory_scale_up)
        THEN "memory_scale_up"
        ELSE IF RatLE(eval_metrics.cpu_usage_percent, thresholds.cpu_scale_down)
        THEN "cpu_scale_down"
        ELSE IF RatLE(eval_metrics.memory_usage_percent, thresholds.memory_scale_down)
        THEN "memory_scale_down"
        ELSE "none"

(* The if/elif chain of _make_scaling_decision: the first condition that holds
   selects the branch *)
ThresholdBranch(container_config, eval_metrics) ==
    LET thresholds == container_config.thresholds
    IN  IF RatGE(eval_metrics.cpu_usage_percent, thresholds.cpu_scale_up)
        THEN "cpu_scale_up"
        ELSE IF RatGE(eval_metrics.memory_usage_percent, thresholds.memory_scale_up)
        THEN "memory_scale_up"
        ELSE IF RatLE(eval_metrics.cpu_usage_percent, thresholds.cpu_scale_down)
        THEN "cpu_scale_down"
        ELSE IF RatLE(eval_metrics.memory_usage_percent, thresholds.memory_scale_down)
        THEN "memory_scale_down"
        ELSE "none"

(* The NO_ACTION / RESOURCE_LIMIT_REACHED decision of the else branches *)
LimitReached(vmid, node, current_cpu, current_memory) ==
    ScalingDecision(vmid, node, "no_action", "resource_limit_reached",
                    current_cpu, current_memory, None, None)

_make_scaling_decision(container_config, cm, eval_metrics) ==
    LET vmid == container_config.vmid
        limits == container_config.limits
        current_cpu == eval_metrics.cpu_cores
        current_memory == eval_metrics.memory_total_mb
        branch == ThresholdBranch(container_config, eval_metrics)
    IN  CASE branch = "cpu_scale_up" ->
                LET target_cpu == Min(current_cpu + limits.cpu_step, limits.max_cpu_cores)
                IN  IF target_cpu > current_cpu
                    THEN ScalingDecision(vmid, cm.node, "scale_up_cpu", "cpu_usage_high",
                                         current_cpu, current_memory, target_cpu, None)
                    ELSE LimitReached(vmid, cm.node, current_cpu, current_memory)
          [] branch = "memory_scale_up" ->
                LET target_memory == Min(current_memory + limits.memory_step_mb,
                                         limits.max_memory_mb)
                IN  IF target_memory > current_memory
                    THEN ScalingDecision(vmid, cm.node, "scale_up_memory",
                                         "memory_usage_high",
                                         current_cpu, current_memory, None, target_memory)
                    ELSE LimitReached(vmid, cm.node, current_cpu, current_memory)
          [] branch = "cpu_scale_down" ->
                LET target_cpu == Max(current_cpu - limits.cpu_step, limits.min_cpu_cores)
                IN  IF target_cpu < current_cpu
                    THEN ScalingDecision(vmid, cm.node, "scale_down_cpu", "cpu_usage_low",
                                         current_cpu, current_memory, target_cpu, None)
                    ELSE LimitReached(vmid, cm.node, current_cpu, current_memory)
          [] branch = "memory_scale_down" ->
                LET target_memory == Max(current_memory - limits.memory_step_mb,
                                         limits.min_memory_mb)
                IN  IF target_memory < current_memory
                    THEN ScalingDecision(vmid, cm.node, "scale_down_memory",
                                         "memory_usage_low",
                                         current_cpu, current_memory, None, target_memory)
                    ELSE LimitReached(vmid, cm.node, current_cpu, current_memory)
          [] OTHER -> AttributeErrorRaised(vmid, cm.node)

(* current_metrics.cpu_cores if current_metrics else 0 *)
CurrentCores(cm) ==
    IF cm.current_metrics # NoMetrics THEN cm.current_metrics.cpu_cores ELSE 0

CurrentMemory(cm) ==
    IF cm.current_metrics # NoMetrics THEN cm.current_metrics.memory_total_mb ELSE 0

(* _evaluate_container_scaling asking for an active operation before it looks
   at the container's metrics *)
_evaluate_container_scaling_ActiveFirst(container_config, cms, ao, sh, t) ==
    LET vmid == container_config.vmid
    IN  IF vmid \in DOMAIN ao
        THEN ScalingDecision(vmid, "unknown", "no_action", "cooldown_period",
                             0, 0, None, None)
        ELSE IF vmid \notin DOMAIN cms
        THEN ScalingDecision(vmid, "unknown", "no_action", "insufficient_data",
                             0, 0, None, None)
        ELSE LET cm == cms[vmid]
             IN  IF cm.status # "running"
                 THEN ScalingDecision(vmid, cm.node, "no_action", "container_not_running",
                                      0, 0, None, None)
                 ELSE IF is_in_cooldown(HistoryOf(sh, vmid),
                                        container_config.cooldown_seconds, t)
                 THEN ScalingDecision(vmid, cm.node, "no_action", "cooldown_period",
                                      CurrentCores(cm), CurrentMemory(cm), None, None)
                 ELSE LET eval_metrics ==
                              get_average_metrics(cm, container_config.evaluation_periods)
                      IN  IF eval_metrics = NoAverage
                          THEN ScalingDecision(vmid, cm.node, "no_action",
                                               "insufficient_data",
                                               CurrentCores(cm), CurrentMemory(cm),
                                               None, None)
                          ELSE _make_scaling_decision(container_config, cm, eval_metrics)

(* ScalingEngine._evaluate_container_scaling, evaluated on the collector's
   container_metrics cms, the engine's active_operations ao and scaling_history
   sh, at time t *)
_evaluate_container_scaling(container_config, cms, ao, sh, t) ==
    LET vmid == container_config.vmid
    IN  IF vmid \notin DOMAIN cms
        THEN ScalingDecision(vmid, "unknown", "no_action", "insufficient_data",
                             0, 0, None, None)
        ELSE LET cm == cms[vmid]
             IN  IF cm.status # "running"
                 THEN ScalingDecision(vmid, cm.node, "no_action", "container_not_running",
                                      0, 0, None, None)
                 ELSE IF vmid \in DOMAIN ao
                 THEN ScalingDecision(vmid, cm.node, "no_action", "cooldown_period",
                                      CurrentCores(cm), CurrentMemory(cm), None, None)
                 ELSE IF is_in_cooldown(HistoryOf(sh, vmid),
                                        container_config.cooldown_seconds, t)
                 THEN ScalingDecision(vmid, cm.node, "no_action", "cooldown_period",
                                      CurrentCores(cm), CurrentMemory(cm), None, None)
                 ELSE LET eval_metrics ==
                              get_average_metrics(cm, container_config.evaluation_periods)
                      IN  IF eval_metrics = NoAverage
                          THEN ScalingDecision(vmid, cm.node, "no_action",
                                               "insufficient_data",
                                               CurrentCores(cm), CurrentMemory(cm),
                                               None, None)
                          ELSE _make_scaling_decision(container_config, cm, eval_metrics)

(* ScalingEngine._generate_scaling_decisions: one decision per enabled entry of
   config.containers, in list order, all evaluated without suspension *)
_generate_scaling_decisions(cfg, cms, ao, sh, t) ==
    LET enabled == SelectSeq(cfg.containers, LAMBDA c : c.enabled)
    IN  [i \in 1..Len(enabled) |->
            _evaluate_container_scaling(enabled[i], cms, ao, sh, t)]


----------------------------------------------------------------------------
(* The Gateway (api/proxmox_client.py) as the collector and the engine see it *)

(* What get_node_status can report for a node *)
NodeLoads == { NodeMetrics(50, 50), NodeMetrics(96, 50) }

(* list_nodes / get_node_status per node: not listed online, status call
   failing, or a status *)
NodeAnswers ==
    { [kind |-> k, load |-> NodeMetrics(0, 0)] : k \in {"offline", "error"} }
    \cup { [kind |-> "online", load |-> l] : l \in NodeLoads }

(* Usage percentages of the newest RRD point *)
RrdUsage(vmid) ==
    IF vmid = 101
    THEN { [cpu |-> 80, mem |-> 85], [cpu |-> 30, mem |-> 40],
           [cpu |-> 55, mem |-> 40], [cpu |-> 55, mem |-> 60] }
    ELSE { [cpu |-> 55, mem |-> 85] }

(* One outcome of the Gateway calls of _collect_single_container_metrics: its
   kind, the usage and the time of the newest RRD point and the uptime the
   status call reports, an hour for a running container and 0 otherwise.  The
   RRD time is 0 unless the specification follows the clock of the requests,
   as SpecCollect does with Stamped. *)
Answer(kind, cpu, mem) ==
    [kind |-> kind, cpu |-> cpu, mem |-> mem, time |-> 0,
     uptime |-> IF kind \in {"sample", "no_rrd"} THEN 3600 ELSE 0]

(* The answer the Gateway gives at time t *)
Stamped(ans, t) == [ans EXCEPT !.time = t]

(* Outcomes of the Gateway calls of one _collect_single_container_metrics *)
ContainerAnswers(vmid) ==
    { Answer(k, 0, 0) :
          k \in IF vmid = 101
                THEN {"no_node", "not_found", "not_running", "no_rrd"}
                ELSE {"api_error", "not_found"} }
    \cup { Answer("sample", u.cpu, u.mem) : u \in RrdUsage(vmid) }

(* Every answer above *)
AllAnswers ==
    [nodes |-> NodeAnswers, containers |-> [v \in Vmids |-> ContainerAnswers(v)]]

(* A Gateway whose node is online, whose container 101 is busy, moderately
   loaded, stopped or gone, and whose container 102 is short of memory *)
PlainAnswers ==
    [nodes |-> { [kind |-> "online", load |-> l] : l \in NodeLoads },
     containers |->
         [v \in Vmids |->
             IF v = 101
             THEN { Answer("sample", 80, 85), Answer("sample", 55, 60),
                    Answer("not_running", 0, 0), Answer("not_found", 0, 0) }
             ELSE { Answer("sample", 55, 85) }]]

(* Cores and memory the containers are configured with when the daemon starts *)
InitialGateway ==
    { [v \in Vmids |-> [node |-> "pve1", cores |-> 2, memory |-> 768]],
      [v \in Vmids |-> [node |-> "pve1", cores |-> IF v = 101 THEN 4 ELSE 2,
                                        memory |-> 768]] }

----------------------------------------------------------------------------
(* Metrics collection (metrics/collector.py) *)

(* The nodes list_nodes reports with status online; the status call of such a
   node can still fail *)
ListedOnline(answers) == { n \in Nodes : answers[n].kind \in {"online", "error"} }

(* _collect_node_metrics / _collect_single_node_metrics: only nodes listed
   online whose status call succeeds are written; nothing is ever removed *)
_collect_node_metrics(nm, answers) ==
    [n \in (DOMAIN nm) \cup {x \in Nodes : answers[x].kind = "online"} |->
        IF answers[n].kind = "online" THEN answers[n].load ELSE nm[n]]

(* _collect_single_container_metrics treating a stopped container like a
   running one as far as its uptime goes *)
_collect_single_container_metrics_StoppedUptime(cms, g, container_config, ans) ==
    LET vmid == container_config.vmid
    IN  CASE ans.kind = "no_node" -> cms
          [] ans.kind = "not_found" -> Del(cms, vmid)
          [] ans.kind = "api_error" -> cms
          [] ans.kind = "not_running" ->
                IF vmid \in DOMAIN cms
                THEN [cms EXCEPT ![vmid].status = "stopped",
                                 ![vmid].uptime = ans.uptime]
                ELSE cms
          [] OTHER ->
                LET existing == IF vmid \in DOMAIN cms
                                THEN cms[vmid]
                                ELSE ContainerMetrics(g[vmid].node, "running",
                                                      ans.uptime)
                    updated == [existing EXCEPT !.status = "running",
                                                !.uptime = ans.uptime,
                                                !.node = g[vmid].node]
                IN  IF ans.kind = "sample"
                    THEN Put(cms, vmid,
                             add_metrics(updated,
                                 from_rrd_data([time |-> ans.time,
                                                cpu |-> ans.cpu, mem |-> ans.mem,
                                                maxmem |-> g[vmid].memory],
                                               [cores |-> g[vmid].cores])))
                    ELSE Put(cms, vmid, updated)

(* _collect_single_container_metrics for one enabled entry *)
_collect_single_container_metrics(cms, g, container_config, ans) ==
    LET vmid == container_config.vmid
    IN  CASE ans.kind = "no_node" -> cms
          [] ans.kind = "not_found" -> Del(cms, vmid)
          [] ans.kind = "api_error" -> cms
          [] ans.kind = "not_running" ->
                IF vmid \in DOMAIN cms
                THEN [cms EXCEPT ![vmid].status = "stopped"]
                ELSE cms
          [] OTHER ->
                LET existing == IF vmid \in DOMAIN cms
                                THEN cms[vmid]
                                ELSE ContainerMetrics(g[vmid].node, "running",
                                                      ans.uptime)
                    updated == [existing EXCEPT !.status = "running",
                                                !.uptime = ans.uptime,
                                                !.node = g[vmid].node]
                IN  IF ans.kind = "sample"
                    THEN Put(cms, vmid,
                             add_metrics(updated,
                                 from_rrd_data([time |-> ans.time,
                                                cpu |-> ans.cpu, mem |-> ans.mem,
                                                maxmem |-> g[vmid].memory],
                                               [cores |-> g[vmid].cores])))
                    ELSE Put(cms, vmid, updated)

(* _collect_container_metrics giving up at the first entry whose collection
   is answered with an error *)
RECURSIVE _collect_container_metrics_StopsAtError(_, _, _, _, _)
_collect_container_metrics_StopsAtError(cms, g, enabled, answers, i) ==
    IF i > Len(enabled) \/ answers[i].kind \in {"api_error", "not_found"}
    THEN cms
    ELSE _collect_container_metrics_StopsAtError(
             _collect_single_container_metrics(cms, g, enabled[i], answers[i]),
             g, enabled, answers, i + 1)

(* _collect_container_metrics: every enabled entry of config.containers *)
RECURSIVE _collect_container_metrics(_, _, _, _, _)
_collect_container_metrics(cms, g, enabled, answers, i) ==
    IF i > Len(enabled)
    THEN cms
    ELSE _collect_container_metrics(
             _collect_single_container_metrics(cms, g, enabled[i], answers[i]),
             g, enabled, answers, i + 1)

----------------------------------------------------------------------------
(* State machine *)

NoResult == [status |-> "none", decisions |-> <<>>]

(* The daemon after initialize(): it holds the configuration it built the
   collector and the engine with, and has reloaded nothing *)
Daemon(cfg) == [config |-> cfg, reloads |-> <<>>]

(* The state after LXCAutoscalerDaemon.initialize: empty metrics, no history,
   no operation, both loops about to start *)
Constructed(cfgs, ans) ==
    /\ now = 0
    /\ config \in cfgs
    /\ gateway = ans
    /\ gw \in InitialGateway
    /\ node_metrics = EmptyDict
    /\ container_metrics = EmptyDict
    /\ active_operations = EmptyDict
    /\ scaling_history = EmptyDict
    /\ pc = "idle"
    /\ tick_gate = "none"
    /\ decisions = <<>>
    /\ didx = 1
    /\ executed_decisions = <<>>
    /\ last_result = NoResult
    /\ resize_log = <<>>
    /\ probes = 0
    /\ probe_decisions = <<>>
    /\ resume = "none"
    /\ ticks = 0
    /\ cycles_completed = 0
    /\ cycles_failed = 0
    /\ recorded = <<>>
    /\ inflight = NoCollection
    /\ daemon = Daemon(config)

Init ==
    Constructed(Configs, AllAnswers)

(* Multiples of Quantum between the starts of two successive ticks: _main_loop
   sleeps max(0, monitoring_interval - cycle_duration), so two tick starts are
   at least one monitoring interval apart *)
SleepQuanta == {1, 2}

(* _main_loop between two ticks *)
Sleep(k) ==
    /\ pc = "sleep"
    /\ ticks < MaxTicks
    /\ now' = now + k * Quantum
    /\ pc' = "idle"
    /\ UNCHANGED <<recorded, gateway, inflight, probes, probe_decisions, resume, config, daemon, gw,
                   node_metrics, container_metrics, active_operations,
                   scaling_history, tick_gate, decisions, didx,
                   executed_decisions, last_result, resize_log, ticks,
                   cycles_completed, cycles_failed>>

(* _main_loop catching the error of a tick without counting it *)
TickFails_Uncounted ==
    /\ pc' = "sleep"
    /\ last_result' = [status |-> "ScalingEngineError", decisions |-> <<>>]
    /\ UNCHANGED <<cycles_completed, cycles_failed>>

(* evaluate_and_scale raising ScalingEngineError, counted by _main_loop *)
TickFails ==
    /\ pc' = "sleep"
    /\ last_result' = [status |-> "ScalingEngineError", decisions |-> <<>>]
    /\ cycles_failed' = cycles_failed + 1
    /\ UNCHANGED cycles_completed

(* evaluate_and_scale returning ds, counted by _main_loop *)
TickReturns(ds) ==
    /\ pc' = "sleep"
    /\ last_result' = [status |-> "ok", decisions |-> ds]
    /\ cycles_completed' = cycles_completed + 1
    /\ UNCHANGED cycles_failed

(* collect_all_metrics with list_nodes failing: MetricsCollectionError, which
   evaluate_and_scale re-raises as ScalingEngineError *)
CollectFails ==
    /\ pc = "idle"
    /\ ticks < MaxTicks
    /\ ticks' = ticks + 1
    /\ tick_gate' = "none"
    /\ TickFails
    /\ inflight' = [inflight EXCEPT !["main"].online = {}, !["main"].answers = <<>>]
    /\ UNCHANGED <<recorded, gateway, probes, probe_decisions, resume, now, config, daemon, gw,
                   node_metrics, container_metrics, active_operations,
                   scaling_history, decisions, didx, executed_decisions,
                   resize_log>>

(* a tick starts: collect_all_metrics *)
Collect ==
    /\ pc = "idle"
    /\ ticks < MaxTicks
    /\ ticks' = ticks + 1
    /\ tick_gate' = "none"
    /\ LET enabled == EnabledContainers(config)
       IN  \E na \in [Nodes -> gateway.nodes],
              ca \in [1..Len(enabled) -> UNION {gateway.containers[v] : v \in Vmids}] :
               /\ \A i \in 1..Len(enabled) : ca[i] \in gateway.containers[enabled[i].vmid]
               /\ node_metrics' = _collect_node_metrics(node_metrics, na)
               /\ container_metrics' =
                      _collect_container_metrics(container_metrics, gw, enabled, ca, 1)
               /\ inflight' = [inflight EXCEPT
                                  !["main"].online = ListedOnline(na),
                                  !["main"].answers = ca]
    /\ pc' = "evaluate"
    /\ last_result' = NoResult
    /\ UNCHANGED <<recorded, gateway, probes, probe_decisions, resume, now, config, daemon, gw,
                   active_operations, scaling_history, decisions, didx,
                   executed_decisions, resize_log, cycles_completed,
                   cycles_failed>>


(* resize_container called with the target only, the other dimension left out *)
_perform_scaling_TargetOnly(decision, t, tick) ==
    [node |-> decision.node, vmid |-> decision.vmid,
     cpu_cores |-> decision.target_cpu_cores,
     memory_mb |-> decision.target_memory_mb,
     at |-> t, tick |-> tick]

(* The resize_container call _perform_scaling issues for a decision *)
_perform_scaling(decision, t, tick) ==
    [node |-> decision.node, vmid |-> decision.vmid,
     cpu_cores |-> IF decision.target_cpu_cores # None
                   THEN decision.target_cpu_cores ELSE decision.current_cpu_cores,
     memory_mb |-> IF decision.target_memory_mb # None
                   THEN decision.target_memory_mb ELSE decision.current_memory_mb,
     at |-> t, tick |-> tick]

(* evaluate_and_scale logging the closed gate without returning *)
EvaluateGateClosed_NoReturn ==
    /\ pc = "evaluate"
    /\ ~_check_cluster_safety(config.safety, _build_cluster_metrics(node_metrics))
    /\ LET ds == _generate_scaling_decisions(config, container_metrics,
                                             active_operations, scaling_history, now)
       IN  /\ \A i \in 1..Len(ds) : ~Raises(ds[i])
           /\ decisions' = ds
    /\ tick_gate' = "closed"
    /\ didx' = 1
    /\ executed_decisions' = <<>>
    /\ pc' = "execute"
    /\ UNCHANGED <<recorded, gateway, inflight, probes, probe_decisions, resume, now, config, daemon, gw,
                   node_metrics, container_metrics, active_operations,
                   scaling_history, last_result, resize_log, ticks,
                   cycles_completed, cycles_failed>>

(* evaluate_and_scale after the collection: the safety gate is closed,
   `return []` *)
EvaluateGateClosed ==
    /\ pc = "evaluate"
    /\ ~_check_cluster_safety(config.safety, _build_cluster_metrics(node_metrics))
    /\ tick_gate' = "closed"
    /\ TickReturns(<<>>)
    /\ UNCHANGED <<recorded, gateway, inflight, probes, probe_decisions, resume, now, config, daemon, gw,
                   node_metrics, container_metrics, active_operations,
                   scaling_history, decisions, didx, executed_decisions,
                   resize_log, ticks>>

(* evaluate_and_scale after the collection: the gate is open and
   _generate_scaling_decisions raises, `raise ScalingEngineError` *)
EvaluateRaises ==
    /\ pc = "evaluate"
    /\ _check_cluster_safety(config.safety, _build_cluster_metrics(node_metrics))
    /\ LET ds == _generate_scaling_decisions(config, container_metrics,
                                             active_operations, scaling_history, now)
       IN  \E i \in 1..Len(ds) : Raises(ds[i])
    /\ tick_gate' = "open"
    /\ TickFails
    /\ UNCHANGED <<recorded, gateway, inflight, probes, probe_decisions, resume, now, config, daemon, gw,
                   node_metrics, container_metrics, active_operations,
                   scaling_history, decisions, didx, executed_decisions,
                   resize_log, ticks>>

(* evaluate_and_scale after the collection: the gate is open and the
   decisions are generated *)
EvaluateDecisions ==
    /\ pc = "evaluate"
    /\ _check_cluster_safety(config.safety, _build_cluster_metrics(node_metrics))
    /\ LET ds == _generate_scaling_decisions(config, container_metrics,
                                             active_operations, scaling_history, now)
       IN  /\ \A i \in 1..Len(ds) : ~Raises(ds[i])
           /\ decisions' = ds
    /\ tick_gate' = "open"
    /\ didx' = 1
    /\ executed_decisions' = <<>>
    /\ pc' = "execute"
    /\ UNCHANGED <<recorded, gateway, inflight, probes, probe_decisions, resume, now, config, daemon, gw,
                   node_metrics, container_metrics, active_operations,
                   scaling_history, last_result, resize_log, ticks,
                   cycles_completed, cycles_failed>>

(* the loop body for a decision that does not require scaling *)
ExecuteNoScaling ==
    /\ pc = "execute"
    /\ didx <= Len(decisions)
    /\ ~requires_scaling(decisions[didx])
    /\ executed_decisions' = Append(executed_decisions, decisions[didx])
    /\ didx' = didx + 1
    /\ UNCHANGED <<recorded, gateway, inflight, probes, probe_decisions, resume, now, config, daemon, gw,
                   node_metrics, container_metrics, active_operations,
                   scaling_history, pc, tick_gate, decisions, last_result,
                   resize_log, ticks, cycles_completed, cycles_failed>>

(* _execute_scaling_decision recording the dry-run operation in the history *)
ExecuteDryRun_Records ==
    /\ pc = "execute"
    /\ didx <= Len(decisions)
    /\ requires_scaling(decisions[didx])
    /\ config.dry_run
    /\ executed_decisions' = Append(executed_decisions, decisions[didx])
    /\ scaling_history' =
           Put(scaling_history, decisions[didx].vmid,
               record_operation(HistoryOf(scaling_history, decisions[didx].vmid),
                                complete_success(ScalingOperation(decisions[didx], now), now)))
    /\ didx' = didx + 1
    /\ UNCHANGED <<recorded, gateway, inflight, probes, probe_decisions, resume, now, config, daemon, gw,
                   node_metrics, container_metrics, active_operations,
                   pc, tick_gate, decisions, last_result,
                   resize_log, ticks, cycles_completed, cycles_failed>>

(* _execute_scaling_decision ignoring dry_run: the Gateway call is issued *)
ExecuteDryRun_Resizes ==
    /\ pc = "execute"
    /\ didx <= Len(decisions)
    /\ requires_scaling(decisions[didx])
    /\ config.dry_run
    /\ executed_decisions' = Append(executed_decisions, decisions[didx])
    /\ resize_log' = Append(resize_log, _perform_scaling(decisions[didx], now, ticks))
    /\ didx' = didx + 1
    /\ UNCHANGED <<recorded, gateway, inflight, probes, probe_decisions, resume, now, config, daemon, gw,
                   node_metrics, container_metrics, active_operations,
                   scaling_history, pc, tick_gate, decisions, last_result,
                   ticks, cycles_completed, cycles_failed>>

(* _execute_scaling_decision in dry-run mode: `return True` *)
ExecuteDryRun ==
    /\ pc = "execute"
    /\ didx <= Len(decisions)
    /\ requires_scaling(decisions[didx])
    /\ config.dry_run
    /\ executed_decisions' = Append(executed_decisions, decisions[didx])
    /\ didx' = didx + 1
    /\ UNCHANGED <<recorded, gateway, inflight, probes, probe_decisions, resume, now, config, daemon, gw,
                   node_metrics, container_metrics, active_operations,
                   scaling_history, pc, tick_gate, decisions, last_result,
                   resize_log, ticks, cycles_completed, cycles_failed>>

(* _execute_scaling_decision up to the suspension in resize_container: the
   operation is registered and the Gateway call is issued *)
ExecuteStart ==
    /\ pc = "execute"
    /\ didx <= Len(decisions)
    /\ requires_scaling(decisions[didx])
    /\ ~config.dry_run
    /\ active_operations' = Put(active_operations, decisions[didx].vmid,
                                ScalingOperation(decisions[didx], now))
    /\ resize_log' = Append(resize_log, _perform_scaling(decisions[didx], now, ticks))
    /\ pc' = "resizing"
    /\ UNCHANGED <<recorded, gateway, inflight, probes, probe_decisions, resume, now, config, daemon, gw,
                   node_metrics, container_metrics, scaling_history, tick_gate,
                   decisions, didx, executed_decisions, last_result, ticks,
                   cycles_completed, cycles_failed>>

(* _execute_scaling_decision without its except clause: an error of
   resize_container leaves the executor and ends evaluate_and_scale *)
ExecuteFinish_Propagates(ok) ==
    /\ pc = "resizing"
    /\ active_operations' = Del(active_operations, decisions[didx].vmid)
    /\ IF ok
       THEN /\ scaling_history' =
                   Put(scaling_history, decisions[didx].vmid,
                       record_operation(HistoryOf(scaling_history, decisions[didx].vmid),
                           complete_success(active_operations[decisions[didx].vmid], now)))
            /\ executed_decisions' = Append(executed_decisions, decisions[didx])
            /\ recorded' = Append(recorded,
                   complete_success(active_operations[decisions[didx].vmid], now))
            /\ gw' = [gw EXCEPT ![decisions[didx].vmid].cores =
                                     resize_log[Len(resize_log)].cpu_cores,
                                ![decisions[didx].vmid].memory =
                                     resize_log[Len(resize_log)].memory_mb]
            /\ didx' = didx + 1
            /\ pc' = "execute"
            /\ UNCHANGED <<last_result, cycles_completed, cycles_failed>>
       ELSE /\ TickFails
            /\ UNCHANGED <<scaling_history, executed_decisions, gw, didx, recorded>>
    /\ UNCHANGED <<gateway, inflight, probes, probe_decisions, resume, now, config, daemon,
                   node_metrics, container_metrics, tick_gate, decisions,
                   resize_log, ticks>>

(* _execute_scaling_decision after resize_container returned (ok) or raised:
   the operation is completed, recorded in the history and removed from
   active_operations *)
ExecuteFinish(ok) ==
    /\ pc = "resizing"
    /\ LET decision == decisions[didx]
           started == ScalingOperation(decision, resize_log[Len(resize_log)].at)
           operation == IF ok THEN complete_success(started, now)
                        ELSE complete_failure(started, now, "Scaling operation failed")
           call == resize_log[Len(resize_log)]
       IN  /\ scaling_history' =
                  Put(scaling_history, decision.vmid,
                      record_operation(HistoryOf(scaling_history, decision.vmid),
                                       operation))
           /\ executed_decisions' =
                  IF ok THEN Append(executed_decisions, decision)
                  ELSE executed_decisions
           /\ gw' = IF ok
                    THEN [gw EXCEPT ![decision.vmid].cores = call.cpu_cores,
                                    ![decision.vmid].memory = call.memory_mb]
                    ELSE gw
           /\ active_operations' = Del(active_operations, decision.vmid)
           /\ recorded' = Append(recorded, operation)
    /\ didx' = didx + 1
    /\ pc' = "execute"
    /\ UNCHANGED <<gateway, inflight, probes, probe_decisions, resume, now, config, daemon,
                   node_metrics, container_metrics, tick_gate, decisions,
                   last_result, resize_log, ticks, cycles_completed,
                   cycles_failed>>

(* evaluate_and_scale: `return executed_decisions` *)
Return ==
    /\ pc = "execute"
    /\ didx > Len(decisions)
    /\ TickReturns(executed_decisions)
    /\ decisions' = <<>>
    /\ didx' = 1
    /\ executed_decisions' = <<>>
    /\ UNCHANGED <<recorded, gateway, inflight, probes, probe_decisions, resume, now, config, daemon, gw,
                   node_metrics, container_metrics, active_operations,
                   scaling_history, tick_gate, resize_log, ticks>>

(* A health check that applies the first of its decisions that requires
   scaling *)
HealthCheck_Applies ==
    /\ pc \in {"idle", "sleep", "resizing"}
    /\ probes < MaxProbes
    /\ probes' = probes + 1
    /\ resume' = pc
    /\ pc' = "health_check"
    /\ \/ UNCHANGED <<node_metrics, container_metrics, probe_decisions, resize_log>>
       \/ /\ \E na \in [Nodes -> gateway.nodes] :
                  node_metrics' = _collect_node_metrics(node_metrics, na)
          /\ LET enabled == EnabledContainers(config)
             IN  \E ca \in [1..Len(enabled) ->
                                UNION {gateway.containers[v] : v \in Vmids}] :
                     /\ \A i \in 1..Len(enabled) :
                            ca[i] \in gateway.containers[enabled[i].vmid]
                     /\ container_metrics' =
                            _collect_container_metrics(container_metrics, gw, enabled,
                                                       ca, 1)
          /\ LET ds == _generate_scaling_decisions(config, container_metrics',
                                                   active_operations,
                                                   scaling_history, now)
                 scaling == { i \in 1..Len(ds) : requires_scaling(ds[i]) }
             IN  /\ probe_decisions' = IF \E i \in 1..Len(ds) : Raises(ds[i])
                                       THEN <<>> ELSE ds
                 /\ resize_log' =
                        IF scaling = {} \/ \E i \in 1..Len(ds) : Raises(ds[i])
                        THEN resize_log
                        ELSE Append(resize_log,
                                    _perform_scaling(ds[CHOOSE i \in scaling : TRUE],
                                                     now, ticks))
    /\ UNCHANGED <<now, config, daemon, gw, active_operations, scaling_history,
                   tick_gate, decisions, didx, executed_decisions, last_result,
                   ticks, cycles_completed, cycles_failed, gateway, inflight, recorded>>

(* _health_check_loop: MetricsCollector.health_check and
   ScalingEngine.health_check run while the main loop is suspended (asleep or
   waiting for resize_container).  The probe collects metrics like a tick and
   generates decisions without executing them; list_nodes failing or
   _generate_scaling_decisions raising makes it report unhealthy. *)
HealthCheck ==
    /\ pc \in {"idle", "sleep", "resizing"}
    /\ probes < MaxProbes
    /\ probes' = probes + 1
    /\ resume' = pc
    /\ pc' = "health_check"
    /\ \/ UNCHANGED <<node_metrics, container_metrics, probe_decisions>>
       \/ /\ \E na \in [Nodes -> gateway.nodes] :
                  node_metrics' = _collect_node_metrics(node_metrics, na)
          /\ LET enabled == EnabledContainers(config)
             IN  \E ca \in [1..Len(enabled) ->
                                UNION {gateway.containers[v] : v \in Vmids}] :
                     /\ \A i \in 1..Len(enabled) :
                            ca[i] \in gateway.containers[enabled[i].vmid]
                     /\ container_metrics' =
                            _collect_container_metrics(container_metrics, gw, enabled,
                                                       ca, 1)
          /\ LET ds == _generate_scaling_decisions(config, container_metrics',
                                                   active_operations,
                                                   scaling_history, now)
             IN  probe_decisions' = IF \E i \in 1..Len(ds) : Raises(ds[i])
                                    THEN <<>> ELSE ds
    /\ UNCHANGED <<now, config, daemon, gw, active_operations, scaling_history,
                   tick_gate, decisions, didx, executed_decisions, last_result,
                   resize_log, ticks, cycles_completed, cycles_failed, gateway, inflight, recorded>>

(* health_check returns: its decisions are only logged, the main loop goes on
   from where it was suspended *)
HealthCheckReturn ==
    /\ pc = "health_check"
    /\ pc' = resume
    /\ resume' = "none"
    /\ probe_decisions' = <<>>
    /\ UNCHANGED <<now, config, daemon, gw, node_metrics, container_metrics,
                   active_operations, scaling_history, tick_gate, decisions,
                   didx, executed_decisions, last_result, resize_log, probes,
                   ticks, cycles_completed, cycles_failed, gateway, inflight, recorded>>

(* _main_loop alone *)
Next ==
    \/ \E k \in SleepQuanta : Sleep(k)
    \/ CollectFails
    \/ Collect
    \/ EvaluateGateClosed
    \/ EvaluateRaises
    \/ EvaluateDecisions
    \/ ExecuteNoScaling
    \/ ExecuteDryRun
    \/ ExecuteStart
    \/ \E ok \in BOOLEAN : ExecuteFinish(ok)
    \/ Return

Spec == Init /\ [][Next]_vars

(* The two tasks of LXCAutoscalerDaemon.start, _main_loop and
   _health_check_loop, against the plain Gateway *)
InitDaemon ==
    Constructed(Configs, PlainAnswers)

NextDaemon ==
    \/ Next
    \/ HealthCheck
    \/ HealthCheckReturn

SpecDaemon == InitDaemon /\ [][NextDaemon]_vars

----------------------------------------------------------------------------
(* _check_cluster_safety and _evaluate_container_scaling on their own inputs *)

(* An engine that has not run a tick *)
AtRest ==
    /\ now = 0
    /\ gateway = AllAnswers
    /\ gw \in InitialGateway
    /\ active_operations = EmptyDict
    /\ scaling_history = EmptyDict
    /\ tick_gate = "none"
    /\ decisions = <<>>
    /\ didx = 1
    /\ executed_decisions = <<>>
    /\ last_result = NoResult
    /\ resize_log = <<>>
    /\ probes = 0
    /\ probe_decisions = <<>>
    /\ resume = "none"
    /\ ticks = 0
    /\ cycles_completed = 0
    /\ cycles_failed = 0
    /\ recorded = <<>>
    /\ inflight = NoCollection

GateNodes == {"pve1", "pve2"}
GateLoads == {50, 80, 85, 90, 91, 95, 96}

(* SafetyConfig with the thresholds of the class defaults or lowered ones *)
GateSafety ==
    { SafetyConfig(FALSE), SafetyConfig(TRUE),
      [SafetyConfig(TRUE) EXCEPT !.max_cpu_usage_threshold = 80,
                                 !.max_memory_usage_threshold = 85] }

InitGate ==
    /\ AtRest
    /\ \E sf \in GateSafety :
           config = [AutoscalerConfig(BothContainers, FALSE, TRUE) EXCEPT !.safety = sf]
    /\ daemon = Daemon(config)
    /\ \E ns \in SUBSET GateNodes :
           node_metrics \in [ns -> {NodeMetrics(c, m) : c \in GateLoads, m \in GateLoads}]
    /\ container_metrics = EmptyDict
    /\ pc = "gate"

(* `if not self._check_cluster_safety(cluster_metrics)` of evaluate_and_scale *)
CheckGate ==
    /\ pc = "gate"
    /\ tick_gate' =
           IF _check_cluster_safety(config.safety, _build_cluster_metrics(node_metrics))
           THEN "open" ELSE "closed"
    /\ pc' = "gate_checked"
    /\ UNCHANGED <<now, config, daemon, gw, node_metrics, container_metrics,
                   active_operations, scaling_history, decisions, didx,
                   executed_decisions, last_result, resize_log, probes,
                   probe_decisions, resume, gateway, inflight, recorded, ticks, cycles_completed,
                   cycles_failed>>

NextGate == CheckGate

SpecGate == InitGate /\ [][NextGate]_vars

DecideCpu == {20, 40, 70, 90}
DecideMem == {30, 50, 80, 90}
DecideCores == {1, 2, 3, 4}
DecideMemory == {512, 768, 1024, 1280}

(* Container 102 tracked and running with two samples in its history *)
InitDecide ==
    /\ AtRest
    /\ config = AutoscalerConfig(<<ContainerConfig(102)>>, FALSE, TRUE)
    /\ daemon = Daemon(config)
    /\ node_metrics = EmptyDict
    /\ \E c1 \in DecideCpu, c2 \in DecideCpu, m1 \in DecideMem, m2 \in DecideMem,
          cores \in DecideCores, memory \in DecideMemory :
           container_metrics =
               Put(EmptyDict, 102,
                   add_metrics(
                       add_metrics(ContainerMetrics("pve1", "running", 3600),
                                   from_rrd_data([time |-> 0, cpu |-> c1, mem |-> m1,
                                                  maxmem |-> memory],
                                                 [cores |-> cores])),
                       from_rrd_data([time |-> 0, cpu |-> c2, mem |-> m2,
                                      maxmem |-> memory],
                                     [cores |-> cores])))
    /\ pc = "decide"

(* One call of _evaluate_container_scaling; an AttributeError it raises is kept
   as the outcome *)
Decide ==
    /\ pc = "decide"
    /\ decisions' = <<_evaluate_container_scaling(config.containers[1], container_metrics,
                                                  active_operations, scaling_history, now)>>
    /\ pc' = "decided"
    /\ UNCHANGED <<now, config, daemon, gw, node_metrics, container_metrics,
                   active_operations, scaling_history, tick_gate, didx,
                   executed_decisions, last_result, resize_log, probes,
                   probe_decisions, resume, gateway, inflight, recorded, ticks, cycles_completed,
                   cycles_failed>>

NextDecide == Decide

SpecDecide == InitDecide /\ [][NextDecide]_vars

----------------------------------------------------------------------------
(* Properties *)

(* The enabled entry a decision of the running tick was evaluated for *)
Entry(i) == EnabledContainers(config)[i]

(* Less than cooldown_seconds have passed since the completion of the last
   recorded operation of vmid *)
WithinCooldown(vmid, cooldown_seconds) ==
    /\ vmid \in DOMAIN scaling_history
    /\ scaling_history[vmid].last_scaling_time # None
    /\ now - scaling_history[vmid].last_scaling_time < cooldown_seconds

TrackedRunning(vmid) ==
    /\ vmid \in DOMAIN container_metrics
    /\ container_metrics[vmid].status = "running"

(* C1 as stated: every decision evaluated for a container within its cooldown
   has action none and reason cooldown, and the evaluation leaves the scaling
   history unchanged. *)
C1_CooldownAlways ==
    [][ pc = "evaluate" =>
          /\ scaling_history' = scaling_history
          /\ pc' = "execute" =>
                 \A i \in 1..Len(decisions') :
                     WithinCooldown(Entry(i).vmid, Entry(i).cooldown_seconds) =>
                         /\ decisions'[i].action = "no_action"
                         /\ decisions'[i].reason = "cooldown_period" ]_vars

(* C1: every decision evaluated for a container within its cooldown has action
   none, its reason is cooldown when the container is tracked and running (an
   untracked container gets insufficient_data and a stopped one not_running,
   both checked before the cooldown), and the evaluation leaves the scaling
   history unchanged. *)
C1_Cooldown ==
    [][ pc = "evaluate" =>
          /\ scaling_history' = scaling_history
          /\ pc' = "execute" =>
                 \A i \in 1..Len(decisions') :
                     WithinCooldown(Entry(i).vmid, Entry(i).cooldown_seconds) =>
                         /\ decisions'[i].action = "no_action"
                         /\ TrackedRunning(Entry(i).vmid) =>
                                decisions'[i].reason = "cooldown_period"
                         /\ Entry(i).vmid \notin DOMAIN container_metrics =>
                                decisions'[i].reason = "insufficient_data"
                         /\ /\ Entry(i).vmid \in DOMAIN container_metrics
                            /\ ~TrackedRunning(Entry(i).vmid)
                            => decisions'[i].reason = "container_not_running" ]_vars

(* A tick has just evaluated a running container within its cooldown whose
   newest sample is below the scale-down threshold, and suppressed it *)
C1_Witness ==
    /\ pc = "execute"
    /\ didx = 1
    /\ \E i \in 1..Len(decisions) :
           /\ WithinCooldown(Entry(i).vmid, Entry(i).cooldown_seconds)
           /\ TrackedRunning(Entry(i).vmid)
           /\ container_metrics[Entry(i).vmid].current_metrics.cpu_usage_percent
                  <= Entry(i).thresholds.cpu_scale_down
           /\ decisions[i].reason = "cooldown_period"

(* C2 as stated: no vmid receives two Gateway resize calls less than one
   cooldown apart, whether the two applications come from one tick (a container
   list naming the vmid twice) or from two successive ticks. *)
C2_OneResizePerCooldown ==
    \A i \in 1..Len(resize_log) : \A j \in 1..Len(resize_log) :
        (i < j /\ resize_log[i].vmid = resize_log[j].vmid) =>
            \A k \in 1..Len(config.containers) :
                config.containers[k].vmid = resize_log[i].vmid =>
                    resize_log[j].at - resize_log[i].at
                        >= config.containers[k].cooldown_seconds

(* The gate as the rule describes it: host protection is on and some node is
   above a safety threshold or less than 10 percent of the cluster's cpu or
   memory is available (nothing is available in an empty snapshot) *)
GateClosedByRule(safety, nm) ==
    /\ safety.enable_host_protection
    /\ \/ \E n \in DOMAIN nm :
              \/ nm[n].cpu_usage_percent > safety.max_cpu_usage_threshold
              \/ nm[n].memory_usage_percent > safety.max_memory_usage_threshold
       \/ DOMAIN nm = {}
       \/ SumOver([n \in DOMAIN nm |-> nm[n].cpu_usage_percent], DOMAIN nm)
              > 90 * Cardinality(DOMAIN nm)
       \/ SumOver([n \in DOMAIN nm |-> nm[n].memory_usage_percent], DOMAIN nm)
              > 90 * Cardinality(DOMAIN nm)

(* C3: when the safety gate is closed in a tick, evaluate_and_scale returns the
   empty list and the tick ends there: no resize call is issued and
   active_operations, the scaling history and the containers' resources are
   unchanged, whatever the container metrics are. *)
C3_GateClosedSkipsTick ==
    [][ (pc = "evaluate" /\ GateClosedByRule(config.safety, node_metrics)) =>
          /\ last_result' = [status |-> "ok", decisions |-> <<>>]
          /\ pc' = "sleep"
          /\ resize_log' = resize_log
          /\ active_operations' = active_operations
          /\ scaling_history' = scaling_history
          /\ gw' = gw ]_vars

(* A tick ended at the closed gate although a running container with room to
   grow was above its cpu scale-up threshold *)
C3_Witness ==
    /\ pc = "sleep"
    /\ tick_gate = "closed"
    /\ last_result = [status |-> "ok", decisions |-> <<>>]
    /\ \E i \in 1..Len(EnabledContainers(config)) :
           /\ TrackedRunning(Entry(i).vmid)
           /\ ~WithinCooldown(Entry(i).vmid, Entry(i).cooldown_seconds)
           /\ Len(container_metrics[Entry(i).vmid].historical_metrics)
                  >= Entry(i).evaluation_periods
           /\ container_metrics[Entry(i).vmid].current_metrics.cpu_usage_percent
                  >= Entry(i).thresholds.cpu_scale_up
           /\ container_metrics[Entry(i).vmid].current_metrics.cpu_cores
                  < Entry(i).limits.max_cpu_cores

(* C4: with host protection on, the gate is closed exactly when some node is
   strictly above a safety threshold or strictly less than 10 percent of cpu
   or memory is available; a node exactly at its threshold or an availability
   of exactly 10 leaves it open; with host protection off it is always open. *)
C4_GateRule ==
    pc = "gate_checked" =>
        (tick_gate = "closed" <=> GateClosedByRule(config.safety, node_metrics))

(* The gate was found open with a node exactly at the cpu safety threshold and
   exactly 10 percent of the cluster's cpu available *)
C4_Witness ==
    /\ pc = "gate_checked"
    /\ tick_gate = "open"
    /\ config.safety.enable_host_protection
    /\ \E n \in DOMAIN node_metrics :
           node_metrics[n].cpu_usage_percent = config.safety.max_cpu_usage_threshold
    /\ SumOver([n \in DOMAIN node_metrics |-> node_metrics[n].cpu_usage_percent],
               DOMAIN node_metrics) = 90 * Cardinality(DOMAIN node_metrics)

(* Sums of the usage percentages over the newest n samples of cm *)
CpuSum(cm, n) ==
    SumSeq([k \in 1..n |-> LastN(cm.historical_metrics, n)[k].cpu_usage_percent])

MemSum(cm, n) ==
    SumSeq([k \in 1..n |-> LastN(cm.historical_metrics, n)[k].memory_usage_percent])

(* The action of the first threshold rule, in the order cpu up, memory up, cpu
   down, memory down, that the averages over evaluation_periods samples match *)
FirstRule(cc, cm) ==
    LET n == cc.evaluation_periods
        t == cc.thresholds
    IN  IF CpuSum(cm, n) >= n * t.cpu_scale_up THEN "scale_up_cpu"
        ELSE IF MemSum(cm, n) >= n * t.memory_scale_up THEN "scale_up_memory"
        ELSE IF CpuSum(cm, n) <= n * t.cpu_scale_down THEN "scale_down_cpu"
        ELSE IF MemSum(cm, n) <= n * t.memory_scale_down THEN "scale_down_memory"
        ELSE "none"

(* The container can still move in the direction of the rule *)
HasRoom(cc, cm, rule) ==
    LET latest == cm.historical_metrics[Len(cm.historical_metrics)]
    IN  CASE rule = "scale_up_cpu" -> latest.cpu_cores < cc.limits.max_cpu_cores
          [] rule = "scale_up_memory" -> latest.memory_total_mb < cc.limits.max_memory_mb
          [] rule = "scale_down_cpu" -> latest.cpu_cores > cc.limits.min_cpu_cores
          [] rule = "scale_down_memory" -> latest.memory_total_mb > cc.limits.min_memory_mb
          [] OTHER -> FALSE

(* C5: the first threshold rule that matches, in the order cpu up, memory up,
   cpu down, memory down, alone decides the action: the decision is that
   rule's action when the container has room in that direction and never the
   action of another rule; cpu high with memory low gives scale-up cpu and
   memory high with cpu low gives scale-up memory. *)
C5_FirstMatchDecides ==
    pc = "decided" =>
        LET cc == config.containers[1]
            cm == container_metrics[cc.vmid]
            rule == FirstRule(cc, cm)
        IN  rule # "none" =>
                /\ decisions[1].action \in {rule, "no_action"}
                /\ HasRoom(cc, cm, rule) => decisions[1].action = rule

(* Average cpu at or above the scale-up threshold with average memory at or
   below the scale-down threshold was decided as scale-up cpu *)
C5_Witness ==
    /\ pc = "decided"
    /\ LET cc == config.containers[1]
           cm == container_metrics[cc.vmid]
       IN  /\ CpuSum(cm, 2) >= 2 * cc.thresholds.cpu_scale_up
           /\ MemSum(cm, 2) <= 2 * cc.thresholds.memory_scale_down
           /\ decisions[1].action = "scale_up_cpu"

(* The container of entry cc passes every preflight check *)
Eligible(cc) ==
    /\ TrackedRunning(cc.vmid)
    /\ cc.vmid \notin DOMAIN active_operations
    /\ ~WithinCooldown(cc.vmid, cc.cooldown_seconds)
    /\ Len(container_metrics[cc.vmid].historical_metrics) >= cc.evaluation_periods

(* C6 as stated: when the gate is open and a running container with enough
   samples, outside its cooldown, matches none of the four rules, the tick
   generates its decisions and the container's decision is action none with
   reason no_action. *)
C6_NoMatchGivesNoAction ==
    [][ (pc = "evaluate" /\ ~GateClosedByRule(config.safety, node_metrics)) =>
          \A i \in 1..Len(EnabledContainers(config)) :
              (Eligible(Entry(i))
                   /\ FirstRule(Entry(i), container_metrics[Entry(i).vmid]) = "none") =>
                  /\ pc' = "execute"
                  /\ Len(decisions') >= i
                  /\ decisions'[i].action = "no_action"
                  /\ decisions'[i].reason = "no_action" ]_vars

(* The decisions of the running tick, just generated *)
JustGenerated ==
    pc = "execute" /\ didx = 1

(* C7: when the first matching rule cannot move the container (it is at or
   beyond the bound), the decision is action none with reason
   resource_limit_reached, whatever lower-priority rule also matches, and no
   resize call is issued for it in the tick. *)
C7_AtBound ==
    /\ JustGenerated =>
           \A i \in 1..Len(decisions) :
               LET cc == Entry(i)
                   cm == container_metrics[cc.vmid]
               IN  (Eligible(cc) /\ FirstRule(cc, cm) # "none"
                        /\ ~HasRoom(cc, cm, FirstRule(cc, cm))) =>
                       /\ decisions[i].action = "no_action"
                       /\ decisions[i].reason = "resource_limit_reached"
    /\ pc = "resizing" => decisions[didx].reason # "resource_limit_reached"
    /\ pc \in {"execute", "resizing"} =>
           \A i \in 1..Len(decisions) :
               decisions[i].reason = "resource_limit_reached" =>
                   \A k \in 1..Len(resize_log) :
                       ~(resize_log[k].tick = ticks
                             /\ resize_log[k].vmid = decisions[i].vmid)

(* A container at max_cpu_cores with cpu above the scale-up threshold was
   decided at the bound although its memory, which has room, was above the
   memory scale-up threshold too *)
C7_Witness ==
    /\ JustGenerated
    /\ \E i \in 1..Len(decisions) :
           LET cc == Entry(i)
               cm == container_metrics[cc.vmid]
           IN  /\ Eligible(cc)
               /\ FirstRule(cc, cm) = "scale_up_cpu"
               /\ cm.current_metrics.cpu_cores = cc.limits.max_cpu_cores
               /\ MemSum(cm, cc.evaluation_periods)
                      >= cc.evaluation_periods * cc.thresholds.memory_scale_up
               /\ HasRoom(cc, cm, "scale_up_memory")
               /\ decisions[i].reason = "resource_limit_reached"

Range(seq) == {seq[k] : k \in 1..Len(seq)}

(* Every decision the engine holds: generated, executed, returned or carried
   by an operation in flight *)
ProducedDecisions ==
    Range(decisions) \cup Range(executed_decisions) \cup Range(last_result.decisions)
        \cup {active_operations[v].decision : v \in DOMAIN active_operations}

(* C8: a decision with action none has no target; any other decision has
   exactly one target, the cores for a cpu action and the memory for a memory
   action. *)
C8_TargetsMatchAction ==
    \A d \in ProducedDecisions :
        /\ d.action = "no_action" =>
               (d.target_cpu_cores = None /\ d.target_memory_mb = None)
        /\ d.action \in {"scale_up_cpu", "scale_down_cpu"} =>
               (d.target_cpu_cores # None /\ d.target_memory_mb = None)
        /\ d.action \in {"scale_up_memory", "scale_down_memory"} =>
               (d.target_cpu_cores = None /\ d.target_memory_mb # None)
        /\ d.action \in {"no_action", "scale_up_cpu", "scale_down_cpu",
                         "scale_up_memory", "scale_down_memory"}

(* One tick produced a decision without action and a memory scale-up *)
C8_Witness ==
    /\ pc = "execute"
    /\ \E i \in 1..Len(decisions) : decisions[i].action = "no_action"
    /\ \E j \in 1..Len(decisions) :
           /\ decisions[j].action = "scale_up_memory"
           /\ decisions[j].target_memory_mb > 0

(* The limits configured for vmid *)
LimitsOf(vmid) ==
    {config.containers[k].limits :
         k \in {j \in 1..Len(config.containers) : config.containers[j].vmid = vmid}}

(* C9: a scale-up decision's target is at most the policy's maximum and above
   the current value; a scale-down decision's target is at least the policy's
   minimum and below the current value. *)
C9_TargetsWithinBounds ==
    \A d \in ProducedDecisions : \A limits \in LimitsOf(d.vmid) :
        /\ d.action = "scale_up_cpu" =>
               (d.target_cpu_cores <= limits.max_cpu_cores
                    /\ d.target_cpu_cores > d.current_cpu_cores)
        /\ d.action = "scale_up_memory" =>
               (d.target_memory_mb <= limits.max_memory_mb
                    /\ d.target_memory_mb > d.current_memory_mb)
        /\ d.action = "scale_down_cpu" =>
               (d.target_cpu_cores >= limits.min_cpu_cores
                    /\ d.target_cpu_cores < d.current_cpu_cores)
        /\ d.action = "scale_down_memory" =>
               (d.target_memory_mb >= limits.min_memory_mb
                    /\ d.target_memory_mb < d.current_memory_mb)

(* A resize to exactly the maximum is in flight: the memory scale-up of a
   container one step below max_memory_mb *)
C9_Witness ==
    /\ pc = "resizing"
    /\ decisions[didx].action = "scale_up_memory"
    /\ \E limits \in LimitsOf(decisions[didx].vmid) :
           decisions[didx].target_memory_mb = limits.max_memory_mb
    /\ resize_log[Len(resize_log)].memory_mb = decisions[didx].target_memory_mb

(* The reason the preflight checks give entry cc, "none" when all pass *)
PreflightReason(cc) ==
    IF cc.vmid \notin DOMAIN container_metrics THEN "insufficient_data"
    ELSE IF container_metrics[cc.vmid].status # "running" THEN "container_not_running"
    ELSE IF cc.vmid \in DOMAIN active_operations THEN "cooldown_period"
    ELSE IF WithinCooldown(cc.vmid, cc.cooldown_seconds) THEN "cooldown_period"
    ELSE IF Len(container_metrics[cc.vmid].historical_metrics) < cc.evaluation_periods
    THEN "insufficient_data"
    ELSE "none"

ThresholdReasons ==
    {"cpu_usage_high", "memory_usage_high", "cpu_usage_low", "memory_usage_low",
     "resource_limit_reached"}

PreflightDecides(ds) ==
    \A i \in 1..Len(ds) :
        IF PreflightReason(Entry(i)) # "none"
        THEN ds[i].action = "no_action" /\ ds[i].reason = PreflightReason(Entry(i))
        ELSE ds[i].reason \in ThresholdReasons

(* C10: the preflight checks apply in the order untracked (insufficient_data),
   not running (container_not_running), operation in flight (cooldown), within
   cooldown (cooldown), too few samples (insufficient_data); the first that
   matches fixes the reason of the action-none decision, and the thresholds
   are evaluated only when none matches.  It holds for the decisions of a tick
   and for those of a health check. *)
C10_PreflightOrder ==
    /\ JustGenerated => PreflightDecides(decisions)
    /\ (pc = "health_check" /\ probe_decisions # <<>>) => PreflightDecides(probe_decisions)

(* A health check that ran while a resize was in flight decided cooldown for
   the running container being resized, which has no history yet *)
C10_Witness ==
    /\ pc = "health_check"
    /\ \E i \in 1..Len(probe_decisions) :
           /\ Entry(i).vmid \in DOMAIN active_operations
           /\ TrackedRunning(Entry(i).vmid)
           /\ ~WithinCooldown(Entry(i).vmid, Entry(i).cooldown_seconds)
           /\ probe_decisions[i].reason = "cooldown_period"

(* C11: while dry_run is set no tick invokes the Gateway's resize, nothing is
   registered or recorded, and every decision handled so far in the tick, the
   ones that require scaling included, is in the list evaluate_and_scale
   returns. *)
C11_DryRunNeverResizes ==
    config.dry_run =>
        /\ resize_log = <<>>
        /\ active_operations = EmptyDict
        /\ scaling_history = EmptyDict
        /\ pc = "execute" => executed_decisions = SubSeq(decisions, 1, didx - 1)

(* The second tick of a dry run has reported a decision that requires scaling
   as applied *)
C11_Witness ==
    /\ config.dry_run
    /\ ticks = 2
    /\ pc = "execute"
    /\ didx > 1
    /\ requires_scaling(decisions[didx - 1])
    /\ executed_decisions[didx - 1] = decisions[didx - 1]

(* C12: every resize call issued to the Gateway names the decision's node and
   vmid and passes both dimensions: the decision's target for the dimension
   being scaled and the decision's current value for the other one. *)
C12_ResizePassesBothDimensions ==
    pc = "resizing" =>
        LET decision == decisions[didx]
            call == resize_log[Len(resize_log)]
        IN  /\ call.node = decision.node /\ call.vmid = decision.vmid
            /\ call.cpu_cores # None /\ call.memory_mb # None
            /\ decision.action \in {"scale_up_cpu", "scale_down_cpu"} =>
                   /\ call.cpu_cores = decision.target_cpu_cores
                   /\ call.memory_mb = decision.current_memory_mb
            /\ decision.action \in {"scale_up_memory", "scale_down_memory"} =>
                   /\ call.memory_mb = decision.target_memory_mb
                   /\ call.cpu_cores = decision.current_cpu_cores

(* A cpu scale-up of container 101 from 2 to 3 cores is in flight; the call
   carries 3 cores and the current 768 MB *)
C12_Witness ==
    /\ pc = "resizing"
    /\ decisions[didx].vmid = 101
    /\ decisions[didx].action = "scale_up_cpu"
    /\ decisions[didx].current_cpu_cores = 2
    /\ resize_log[Len(resize_log)].cpu_cores = 3
    /\ resize_log[Len(resize_log)].memory_mb = 768

(* A step in which resize_container raised: the call in flight ends and its
   decision is not added to the executed ones *)
ResizeFailed ==
    /\ pc = "resizing"
    /\ pc' # "resizing"
    /\ pc' # "health_check"
    /\ executed_decisions' = executed_decisions

(* C13: an error of the Gateway while one decision is applied stays inside
   the executor: the operation is recorded as a failure of its container, it
   leaves active_operations, evaluate_and_scale goes on with the next decision
   of the tick, and a tick that reached the execution of its decisions ends
   by returning, never by raising. *)
C13_GatewayErrorStaysInExecutor ==
    [][ /\ ResizeFailed =>
               LET vmid == decisions[didx].vmid
                   before == HistoryOf(scaling_history, vmid)
               IN  /\ vmid \in DOMAIN scaling_history'
                   /\ scaling_history'[vmid].failure_count = before.failure_count + 1
                   /\ scaling_history'[vmid].success_count = before.success_count
                   /\ scaling_history'[vmid].operation_count = before.operation_count + 1
                   /\ vmid \notin DOMAIN active_operations'
                   /\ gw' = gw
                   /\ pc' = "execute"
                   /\ decisions' = decisions
                   /\ didx' = didx + 1
                   /\ last_result' = last_result
                   /\ cycles_failed' = cycles_failed
        /\ (pc \in {"execute", "resizing"} /\ pc' = "sleep") =>
               /\ last_result'.status = "ok"
               /\ cycles_completed' = cycles_completed + 1
               /\ cycles_failed' = cycles_failed
      ]_vars

(* The first decision of a tick failed at the Gateway, the second one of the
   same tick was applied, and evaluate_and_scale returned the second only *)
C13_Witness ==
    /\ pc = "sleep"
    /\ last_result.status = "ok"
    /\ Len(last_result.decisions) = 1
    /\ Len(resize_log) >= 2
    /\ resize_log[Len(resize_log)].tick = ticks
    /\ resize_log[Len(resize_log) - 1].tick = ticks
    /\ \E v \in DOMAIN scaling_history : scaling_history[v].failure_count >= 1
    /\ gw[last_result.decisions[1].vmid].memory = last_result.decisions[1].target_memory_mb

(* A resize of vmid was already issued in the running tick *)
ResizedThisTick(vmid) ==
    \E k \in 1..Len(resize_log) :
        resize_log[k].vmid = vmid /\ resize_log[k].tick = ticks

(* C14: a failed application records its completion time as last_scaling_time
   (and its action as last_scaling_action) as a successful one does, and in
   the ticks that follow no resize of that container is issued before
   cooldown_seconds have passed since that time. *)
C14_FailureStartsCooldown ==
    [][ /\ (pc = "resizing" /\ pc' = "execute") =>
               LET vmid == decisions[didx].vmid
               IN  /\ scaling_history'[vmid].last_scaling_time = now'
                   /\ scaling_history'[vmid].last_scaling_action = decisions[didx].action
        /\ (pc = "execute" /\ pc' = "resizing" /\ ~ResizedThisTick(decisions[didx].vmid)) =>
               ~WithinCooldown(decisions[didx].vmid, Entry(didx).cooldown_seconds)
      ]_vars

(* In the tick after a failed resize the container, running and above its
   thresholds, is still within cooldown and gets the cooldown decision *)
C14_Witness ==
    /\ pc = "execute"
    /\ didx = 1
    /\ ticks = 2
    /\ decisions[1].reason = "cooldown_period"
    /\ scaling_history[decisions[1].vmid].failure_count = 1
    /\ scaling_history[decisions[1].vmid].success_count = 0
    /\ WithinCooldown(decisions[1].vmid, Entry(1).cooldown_seconds)
    /\ TrackedRunning(decisions[1].vmid)
    /\ FirstRule(Entry(1), container_metrics[decisions[1].vmid]) # "none"

(* The resize_container calls that were issued and have not returned: the
   executor awaits one call at a time, also while a health check runs *)
OutstandingResizes ==
    IF pc = "resizing" \/ (pc = "health_check" /\ resume = "resizing") THEN 1 ELSE 0

(* C15: at every instant active_operations holds at most
   max_concurrent_operations entries and at most max_concurrent_operations
   resize calls are outstanding at the Gateway. *)
C15_ConcurrencyBound ==
    /\ Cardinality(DOMAIN active_operations) <= config.safety.max_concurrent_operations
    /\ OutstandingResizes <= config.safety.max_concurrent_operations

(* The bound is reached: one operation allowed, one resize outstanding while
   a health check runs, after an earlier operation on another container *)
C15_Witness ==
    /\ config.safety.max_concurrent_operations = 1
    /\ pc = "health_check"
    /\ OutstandingResizes = 1
    /\ Cardinality(DOMAIN active_operations) = 1
    /\ \E v \in DOMAIN scaling_history : v \notin DOMAIN active_operations

(* C16: a resize for a vmid starts only when no operation on that vmid is
   registered and no resize is outstanding, and an operation that ends has
   left active_operations before the executor goes on; so no two applications
   to one vmid are ever in flight together. *)
C16_OneOperationPerVmid ==
    [][ /\ (pc = "execute" /\ pc' = "resizing") =>
               /\ decisions[didx].vmid \notin DOMAIN active_operations
               /\ OutstandingResizes = 0
               /\ DOMAIN active_operations' = {decisions[didx].vmid}
        /\ (pc = "resizing" /\ pc' = "execute") =>
               decisions[didx].vmid \notin DOMAIN active_operations'
      ]_vars

(* Two resizes of one vmid in one tick: the second is in flight after the
   first one was completed, recorded and removed *)
C16_Witness ==
    /\ pc = "resizing"
    /\ Len(resize_log) >= 2
    /\ resize_log[Len(resize_log)].vmid = resize_log[Len(resize_log) - 1].vmid
    /\ resize_log[Len(resize_log)].tick = resize_log[Len(resize_log) - 1].tick
    /\ DOMAIN active_operations = {resize_log[Len(resize_log)].vmid}
    /\ scaling_history[resize_log[Len(resize_log)].vmid].operation_count = 1

----------------------------------------------------------------------------
(* ScalingHistory on its own: any sequence of record_operation calls with
   operations that succeeded, failed or have not completed *)

MaxRecords == 3

HistoryOutcomes == {"success", "failure", "incomplete"}

(* The decisions of the recorded operations: a cpu scale-up and a memory
   scale-down *)
HistoryDecision(vmid, up) ==
    IF up
    THEN ScalingDecision(vmid, "pve1", "scale_up_cpu", "cpu_usage_high", 2, 768, 3, None)
    ELSE ScalingDecision(vmid, "pve1", "scale_down_memory", "memory_usage_low",
                         2, 768, None, 512)

InitHistory ==
    /\ AtRest
    /\ config = AutoscalerConfig(BothContainers, FALSE, TRUE)
    /\ daemon = Daemon(config)
    /\ node_metrics = EmptyDict
    /\ container_metrics = EmptyDict
    /\ pc = "history"

(* history.record_operation(operation) for an operation started now that
   completes, if it does, one Quantum later *)
RecordOperation(vmid, up, outcome) ==
    /\ pc = "history"
    /\ Len(recorded) < MaxRecords
    /\ LET started == ScalingOperation(HistoryDecision(vmid, up), now)
           operation ==
               CASE outcome = "success" -> complete_success(started, now + Quantum)
                 [] outcome = "failure" ->
                        complete_failure(started, now + Quantum, "Scaling operation failed")
                 [] OTHER -> started
       IN  /\ scaling_history' =
                  Put(scaling_history, vmid,
                      record_operation(HistoryOf(scaling_history, vmid), operation))
           /\ recorded' = Append(recorded, operation)
    /\ now' = now + Quantum
    /\ UNCHANGED <<config, daemon, gw, node_metrics, container_metrics, active_operations,
                   pc, tick_gate, decisions, didx, executed_decisions,
                   last_result, resize_log, probes, probe_decisions, resume,
                   gateway, inflight, ticks, cycles_completed, cycles_failed>>

NextHistory ==
    \E vmid \in Vmids, up \in BOOLEAN, outcome \in HistoryOutcomes :
        RecordOperation(vmid, up, outcome)

SpecHistory == InitHistory /\ [][NextHistory]_vars

(* The completed operations among those handed to record_operation for vmid *)
CompletedOperations(vmid) ==
    SelectSeq(recorded, LAMBDA o : o.decision.vmid = vmid /\ o.completed_at # None)

(* C17: in every state each container's history has operation_count =
   success_count + failure_count = the number of completed operations recorded
   for it, and its fields are those of the completed operations alone
   (successes counted as successes, time and action of the last completed
   one): recording an operation that has not completed changes no field. *)
C17_HistoryCounts ==
    \A vmid \in Vmids :
        LET H == HistoryOf(scaling_history, vmid)
            done == CompletedOperations(vmid)
        IN  /\ H.operation_count = Len(done)
            /\ H.success_count + H.failure_count = Len(done)
            /\ H.success_count = Len(SelectSeq(done, LAMBDA o : o.success = "True"))
            /\ H.last_scaling_time =
                   IF done = <<>> THEN None ELSE done[Len(done)].completed_at
            /\ H.last_scaling_action =
                   IF done = <<>> THEN "None" ELSE done[Len(done)].decision.action

(* A success, a failure and then an operation that has not completed were
   recorded for container 101: two operations counted *)
C17_Witness ==
    /\ Len(recorded) = 3
    /\ \A i \in 1..3 : recorded[i].decision.vmid = 101
    /\ recorded[1].success = "True"
    /\ recorded[2].success = "False"
    /\ recorded[3].completed_at = None
    /\ scaling_history[101].operation_count = 2
    /\ scaling_history[101].success_count = 1
    /\ scaling_history[101].failure_count = 1

(* Where _main_loop is, also while the health check runs *)
MainLoopAt == IF pc = "health_check" THEN resume ELSE pc

(* The ticks that have ended: all started ones, less the one in progress *)
TicksEnded == IF MainLoopAt \in {"idle", "sleep"} THEN ticks ELSE ticks - 1

(* C18: a tick ends either by returning, which adds one to cycles_completed,
   or by raising (failed collection, error in the engine), which _main_loop
   catches: it adds exactly one to cycles_failed and goes on to the sleep
   before the next tick; cycles_completed + cycles_failed is the number of
   ticks that have ended. *)
C18_FailedTickCountedLoopGoesOn ==
    [][ /\ cycles_completed' + cycles_failed' = TicksEnded'
        /\ TicksEnded' # TicksEnded =>
               /\ TicksEnded' = TicksEnded + 1
               /\ pc' = "sleep"
               /\ last_result'.status \in {"ok", "ScalingEngineError"}
               /\ last_result'.status = "ScalingEngineError" =>
                      /\ cycles_failed' = cycles_failed + 1
                      /\ cycles_completed' = cycles_completed
               /\ last_result'.status = "ok" =>
                      /\ cycles_completed' = cycles_completed + 1
                      /\ cycles_failed' = cycles_failed
      ]_vars

(* After a tick that failed the next tick was started and has collected its
   metrics *)
C18_Witness ==
    /\ ticks = 2
    /\ pc = "evaluate"
    /\ cycles_failed = 1
    /\ cycles_completed = 0

----------------------------------------------------------------------------
(* ContainerMetrics on its own: samples appended to the buffer of container
   101, one per Quantum and stamped with the time of the append, and
   get_average_metrics called on the buffer *)

MaxAppends == 3

(* Samples already appended when the run starts: none, a few, and up to the
   capacity of the buffer *)
BufferFill == {0, 1, 2, 98, 99, 100}

(* Usage, cores and total memory a sample may carry *)
BufferSamples ==
    { [cpu |-> 30, mem |-> 40, cores |-> 2, maxmem |-> 768],
      [cpu |-> 80, mem |-> 85, cores |-> 3, maxmem |-> 1024],
      [cpu |-> 55, mem |-> 60, cores |-> 2, maxmem |-> 512] }

AveragePeriods == {1, 2, 3}

(* ResourceMetrics.from_rrd_data for the point of time t *)
Sample(t, s) ==
    from_rrd_data([time |-> t, cpu |-> s.cpu, mem |-> s.mem, maxmem |-> s.maxmem],
                  [cores |-> s.cores])

(* The k-th sample of the initial fill *)
FillSample(k) ==
    Sample(k * Quantum,
           [cpu |-> 20 + 10 * (k % 7), mem |-> 35 + 5 * (k % 11),
            cores |-> 1 + (k % 3), maxmem |-> 512 + 256 * (k % 2)])

(* The ContainerMetrics of a running container after its first n samples,
   n within the capacity of the buffer *)
Filled(n) ==
    [ContainerMetrics("pve1", "running", 3600) EXCEPT
        !.current_metrics = IF n = 0 THEN NoMetrics ELSE FillSample(n),
        !.historical_metrics = [k \in 1..n |-> FillSample(k)]]

InitBuffer ==
    /\ now \in {n * Quantum : n \in BufferFill}
    /\ container_metrics = Put(EmptyDict, 101, Filled(now \div Quantum))
    /\ config = AutoscalerConfig(<<ContainerConfig(101)>>, FALSE, TRUE)
    /\ gateway = AllAnswers
    /\ gw \in InitialGateway
    /\ node_metrics = EmptyDict
    /\ active_operations = EmptyDict
    /\ scaling_history = EmptyDict
    /\ pc = "buffer"
    /\ tick_gate = "none"
    /\ decisions = <<>>
    /\ didx = 1
    /\ executed_decisions = <<>>
    /\ last_result = NoResult
    /\ resize_log = <<>>
    /\ probes = 0
    /\ probe_decisions = <<>>
    /\ resume = "none"
    /\ ticks = 0
    /\ cycles_completed = 0
    /\ cycles_failed = 0
    /\ recorded = <<>>
    /\ inflight = NoCollection
    /\ daemon = Daemon(config)

(* container_metrics.add_metrics(resource_metrics), one Quantum after the
   previous append *)
AppendSample(s) ==
    /\ pc = "buffer"
    /\ ticks < MaxAppends
    /\ ticks' = ticks + 1
    /\ now' = now + Quantum
    /\ container_metrics' =
           [container_metrics EXCEPT ![101] = add_metrics(@, Sample(now', s))]
    /\ UNCHANGED <<config, daemon, gw, node_metrics, active_operations, scaling_history,
                   pc, tick_gate, decisions, didx, executed_decisions,
                   last_result, resize_log, probes, probe_decisions, resume,
                   gateway, inflight, cycles_completed, cycles_failed, recorded>>

(* container_metrics.get_average_metrics(periods); its result is kept *)
Average(periods) ==
    /\ pc = "buffer"
    /\ last_result' = [status |-> "average", periods |-> periods,
                       metrics |-> get_average_metrics(container_metrics[101], periods)]
    /\ pc' = "averaged"
    /\ UNCHANGED <<now, config, daemon, gw, node_metrics, container_metrics,
                   active_operations, scaling_history, tick_gate, decisions,
                   didx, executed_decisions, resize_log, probes,
                   probe_decisions, resume, gateway, inflight, ticks, cycles_completed,
                   cycles_failed, recorded>>

NextBuffer ==
    \/ \E s \in BufferSamples : AppendSample(s)
    \/ \E periods \in AveragePeriods : Average(periods)

SpecBuffer == InitBuffer /\ [][NextBuffer]_vars

(* The samples appended to the buffer of container 101 so far: one per Quantum *)
AppendedSoFar == now \div Quantum

(* C19: after any sequence of appends the buffer of a container holds at most
   100 samples, namely the min(100, appended) most recently appended ones in
   the order of their appends (the oldest are the ones evicted), and
   current_metrics is the last sample of the buffer. *)
C19_RingBuffer ==
    LET cm == container_metrics[101]
        h == cm.historical_metrics
    IN  /\ Len(h) <= 100
        /\ Len(h) = IF AppendedSoFar < 100 THEN AppendedSoFar ELSE 100
        /\ \A i \in 1..Len(h) :
               h[i].timestamp = (AppendedSoFar - Len(h) + i) * Quantum
        /\ AppendedSoFar > 0 => cm.current_metrics = h[Len(h)]
        /\ AppendedSoFar = 0 => cm.current_metrics = NoMetrics

(* 102 samples were appended: the buffer is full and the two oldest have been
   evicted *)
C19_Witness ==
    /\ AppendedSoFar = 102
    /\ ticks >= 2
    /\ Len(container_metrics[101].historical_metrics) = 100
    /\ container_metrics[101].historical_metrics[1].timestamp = 3 * Quantum
    /\ container_metrics[101].current_metrics.timestamp = 102 * Quantum

(* The sum of field f over the last n samples of buffer h *)
RECURSIVE SumOfLast(_, _, _)
SumOfLast(h, n, f) ==
    IF n = 0 THEN 0
    ELSE h[Len(h)][f] + SumOfLast(SubSeq(h, 1, Len(h) - 1), n - 1, f)

(* C20: get_average_metrics(N) returns None exactly when fewer than N samples
   are buffered; otherwise its cpu and memory usage are the arithmetic means
   over the last N buffered samples and its cores and total memory are those
   of the most recent sample. *)
C20_Average ==
    pc = "averaged" =>
        LET N == last_result.periods
            h == container_metrics[101].historical_metrics
            average == last_result.metrics
        IN  /\ average = NoAverage <=> Len(h) < N
            /\ Len(h) >= N =>
                   /\ average.cpu_usage_percent.den = N
                   /\ average.cpu_usage_percent.num = SumOfLast(h, N, "cpu_usage_percent")
                   /\ average.memory_usage_percent.den = N
                   /\ average.memory_usage_percent.num =
                          SumOfLast(h, N, "memory_usage_percent")
                   /\ average.cpu_cores = h[Len(h)].cpu_cores
                   /\ average.memory_total_mb = h[Len(h)].memory_total_mb

(* The average over the last 2 of at least 3 buffered samples whose usage,
   cores and total memory differ: (80 + 30) / 2 and (85 + 40) / 2, with the
   cores and the memory of the newest *)
C20_Witness ==
    /\ pc = "averaged"
    /\ last_result.periods = 2
    /\ Len(container_metrics[101].historical_metrics) >= 3
    /\ ticks = 3
    /\ last_result.metrics.cpu_usage_percent = Rat(110, 2)
    /\ last_result.metrics.memory_usage_percent = Rat(125, 2)
    /\ last_result.metrics.cpu_cores = 2
    /\ container_metrics[101].historical_metrics[
           Len(container_metrics[101].historical_metrics) - 1].cpu_cores = 3
    /\ container_metrics[101].historical_metrics[
           Len(container_metrics[101].historical_metrics) - 2].cpu_usage_percent = 55

----------------------------------------------------------------------------
(* MetricsCollector on its own, called by both tasks of the daemon.  Both
   loops start with a collection when the daemon starts, and every Gateway
   request runs in the executor's thread pool, so a collection that was
   answered first may be the one whose gather returns last. *)

MaxCollects == 3

(* A Gateway whose node is online; container 101 is busy, stopped or gone,
   container 102 is short of memory or its requests fail *)
CollectAnswers ==
    [nodes |-> { [kind |-> "online", load |-> NodeMetrics(50, 50)] },
     containers |->
         [v \in Vmids |->
             IF v = 101
             THEN { Answer("sample", 80, 85), Answer("not_running", 0, 0),
                    Answer("not_found", 0, 0) }
             ELSE { Answer("sample", 55, 85), Answer("api_error", 0, 0) }]]

InitCollect ==
    /\ now = 0
    /\ config = AutoscalerConfig(BothContainers, FALSE, TRUE)
    /\ gateway = CollectAnswers
    /\ gw = [v \in Vmids |-> [node |-> "pve1", cores |-> 2, memory |-> 768]]
    /\ node_metrics = EmptyDict
    /\ container_metrics = EmptyDict
    /\ active_operations = EmptyDict
    /\ scaling_history = EmptyDict
    /\ pc = "collect"
    /\ tick_gate = "none"
    /\ decisions = <<>>
    /\ didx = 1
    /\ executed_decisions = <<>>
    /\ last_result = NoResult
    /\ resize_log = <<>>
    /\ probes = 0
    /\ probe_decisions = <<>>
    /\ resume = "none"
    /\ ticks = 0
    /\ cycles_completed = 0
    /\ cycles_failed = 0
    /\ recorded = <<>>
    /\ inflight = NoCollection
    /\ daemon = Daemon(config)

(* collect_all_metrics up to the answers of the Gateway: the nodes are
   collected, the requests for every enabled container are answered at the
   present time, and the task waits for its gather to return *)
StartCollect(caller) ==
    /\ pc = "collect"
    /\ ~inflight[caller].busy
    /\ ticks + probes < MaxCollects
    /\ IF caller = "main"
       THEN ticks' = ticks + 1 /\ UNCHANGED probes
       ELSE probes' = probes + 1 /\ UNCHANGED ticks
    /\ LET enabled == EnabledContainers(config)
       IN  \E na \in [Nodes -> gateway.nodes],
              ca \in [1..Len(enabled) -> UNION {gateway.containers[v] : v \in Vmids}] :
               /\ \A i \in 1..Len(enabled) : ca[i] \in gateway.containers[enabled[i].vmid]
               /\ node_metrics' = _collect_node_metrics(node_metrics, na)
               /\ inflight' =
                      [inflight EXCEPT ![caller] =
                          [busy |-> TRUE,
                           online |-> ListedOnline(na),
                           answers |-> [i \in DOMAIN ca |-> Stamped(ca[i], now)],
                           holding |-> 1..Min(Len(enabled), FanOutLimit),
                           queued |-> (FanOutLimit + 1)..Len(enabled)]]
    /\ UNCHANGED <<now, config, daemon, gw, container_metrics, active_operations,
                   scaling_history, pc, tick_gate, decisions, didx,
                   executed_decisions, last_result, resize_log,
                   probe_decisions, resume, gateway, cycles_completed,
                   cycles_failed, recorded>>

(* the gather of a collection returns: each _collect_single_container_metrics
   goes on after its await and writes what it was answered *)
FinishCollect(caller) ==
    /\ pc = "collect"
    /\ inflight[caller].busy
    /\ container_metrics' =
           _collect_container_metrics(container_metrics, gw, EnabledContainers(config),
                                      inflight[caller].answers, 1)
    /\ inflight' = [inflight EXCEPT ![caller] = NoCollection[caller]]
    /\ UNCHANGED <<now, config, daemon, gw, node_metrics, active_operations,
                   scaling_history, pc, tick_gate, decisions, didx,
                   executed_decisions, last_result, resize_log, probes,
                   probe_decisions, resume, gateway, ticks, cycles_completed,
                   cycles_failed, recorded>>

(* time passes, at most one Quantum per collection *)
Advance ==
    /\ pc = "collect"
    /\ now < MaxCollects * Quantum
    /\ now' = now + Quantum
    /\ UNCHANGED <<config, daemon, gw, node_metrics, container_metrics,
                   active_operations, scaling_history, pc, tick_gate,
                   decisions, didx, executed_decisions, last_result,
                   resize_log, probes, probe_decisions, resume, gateway,
                   inflight, ticks, cycles_completed, cycles_failed, recorded>>

NextCollect ==
    \/ \E caller \in Callers : StartCollect(caller)
    \/ \E caller \in Callers : FinishCollect(caller)
    \/ Advance

SpecCollect == InitCollect /\ [][NextCollect]_vars

(* C21: in every state the samples of each container's ring buffer are in
   non-decreasing order of their timestamps, however the collection of the
   main loop and the collection of the health check interleave. *)
C21_TimestampOrder ==
    \A vmid \in DOMAIN container_metrics :
        LET h == container_metrics[vmid].historical_metrics
        IN  \A i \in 1..Len(h) : \A j \in 1..Len(h) :
                i < j => h[i].timestamp <= h[j].timestamp

(* The gather of caller's collection returns in this step *)
CollectionReturns(caller) == inflight[caller].busy /\ ~inflight'[caller].busy

(* C22: when a collection finds a tracked container that is not running, it
   sets the container's status and nothing else: no sample is appended, and
   the buffer, the current sample, the hosting node and the uptime stay as
   they were. *)
C22_NotRunningChangesStatusOnly ==
    [][ \A caller \in Callers : CollectionReturns(caller) =>
            \A i \in 1..Len(EnabledContainers(config)) :
                LET vmid == Entry(i).vmid
                IN  (inflight[caller].answers[i].kind = "not_running"
                         /\ vmid \in DOMAIN container_metrics) =>
                        /\ vmid \in DOMAIN container_metrics'
                        /\ container_metrics'[vmid] =
                               [container_metrics[vmid] EXCEPT !.status = "stopped"]
      ]_vars

(* Container 101 was sampled while running and then found stopped: it keeps
   its sample of time 0 and its uptime, with the new status *)
C22_Witness ==
    /\ 101 \in DOMAIN container_metrics
    /\ container_metrics[101].status = "stopped"
    /\ container_metrics[101].uptime = 3600
    /\ Len(container_metrics[101].historical_metrics) = 1
    /\ container_metrics[101].current_metrics.timestamp = 0
    /\ now > 0
    /\ inflight = NoCollection

(* The answers the Gateway gave to the main loop's collection of this tick *)
TickAnswers == inflight["main"].answers

(* The entries after entry i that name the same container *)
LaterEntries(i) ==
    { j \in (i + 1)..Len(EnabledContainers(config)) : Entry(j).vmid = Entry(i).vmid }

(* What a not_found answer to entry i leaves of the container after the
   collection: nothing, or what later entries of the same tick made anew *)
Discarded(i) ==
    LET vmid == Entry(i).vmid
        again == { j \in LaterEntries(i) : TickAnswers'[j].kind \in {"sample", "no_rrd"} }
        fresh == { j \in LaterEntries(i) : TickAnswers'[j].kind = "sample" }
    IN  IF again = {}
        THEN vmid \notin DOMAIN container_metrics'
        ELSE /\ vmid \in DOMAIN container_metrics'
             /\ Len(container_metrics'[vmid].historical_metrics) <= Cardinality(fresh)

(* The container of entry i has fewer samples than its evaluation_periods *)
ShortOfSamples(i) ==
    \/ Entry(i).vmid \notin DOMAIN container_metrics
    \/ Len(container_metrics[Entry(i).vmid].historical_metrics)
           < Entry(i).evaluation_periods

(* C23 as stated: a not_found answer removes the container and its buffer, and
   the decision for it in that tick is none/insufficient_data unless it has
   already accumulated evaluation_periods fresh samples again. *)
C23_InsufficientUntilRefilled ==
    [][ /\ (pc = "idle" /\ pc' = "evaluate") =>
               \A i \in 1..Len(EnabledContainers(config)) :
                   TickAnswers'[i].kind = "not_found" => Discarded(i)
        /\ (pc = "evaluate" /\ pc' = "execute") =>
               \A i \in 1..Len(decisions') :
                   (TickAnswers[i].kind = "not_found" /\ ShortOfSamples(i)) =>
                       /\ decisions'[i].action = "no_action"
                       /\ decisions'[i].reason = "insufficient_data" ]_vars

(* C23: a not_found answer removes the container and its buffer; while a
   container is untracked its decision is none/insufficient_data, and while it
   is tracked with fewer than evaluation_periods samples its decision is none
   with reason not_running if it is stopped, cooldown if it has an active
   operation or is within its cooldown, and insufficient_data otherwise. *)
C23_NotFoundDiscards ==
    [][ /\ (pc = "idle" /\ pc' = "evaluate") =>
               \A i \in 1..Len(EnabledContainers(config)) :
                   TickAnswers'[i].kind = "not_found" => Discarded(i)
        /\ (pc = "evaluate" /\ pc' = "execute") =>
               \A i \in 1..Len(decisions') :
                   ShortOfSamples(i) =>
                       /\ decisions'[i].action = "no_action"
                       /\ decisions'[i].reason =
                              IF Entry(i).vmid \notin DOMAIN container_metrics
                              THEN "insufficient_data"
                              ELSE IF ~TrackedRunning(Entry(i).vmid)
                              THEN "container_not_running"
                              ELSE IF \/ Entry(i).vmid \in DOMAIN active_operations
                                      \/ WithinCooldown(Entry(i).vmid,
                                                        Entry(i).cooldown_seconds)
                              THEN "cooldown_period"
                              ELSE "insufficient_data" ]_vars

(* A container that was resized in an earlier tick was answered not_found in
   this one: it is untracked and its decision is none/insufficient_data *)
C23_Witness ==
    /\ pc = "execute"
    /\ didx = 1
    /\ \E i \in 1..Len(decisions) :
           /\ TickAnswers[i].kind = "not_found"
           /\ LaterEntries(i) = {}
           /\ \E k \in 1..Len(resize_log) : resize_log[k].vmid = Entry(i).vmid
           /\ Entry(i).vmid \notin DOMAIN container_metrics
           /\ decisions[i].action = "no_action"
           /\ decisions[i].reason = "insufficient_data"

(* The collection of entry i of this tick ended in a Gateway error *)
CollectionFailed(i) == TickAnswers'[i].kind \in {"api_error", "not_found"}

(* The sample the Gateway's answer to entry j of this tick makes *)
TickSample(j) ==
    from_rrd_data([time |-> TickAnswers'[j].time, cpu |-> TickAnswers'[j].cpu,
                   mem |-> TickAnswers'[j].mem, maxmem |-> gw[Entry(j).vmid].memory],
                  [cores |-> gw[Entry(j).vmid].cores])

(* C24: when the collection of one container fails in a tick, collect() still
   returns and every other enabled container that was answered with a sample
   has that sample appended to its buffer in the same tick. *)
C24_ContainerFailureIsolated ==
    [][ (pc = "idle" /\ ticks' = ticks + 1
             /\ \E i \in DOMAIN TickAnswers' : CollectionFailed(i)) =>
          /\ pc' = "evaluate"
          /\ last_result' = NoResult
          /\ \A j \in DOMAIN TickAnswers' :
                 (/\ TickAnswers'[j].kind = "sample"
                  /\ \E i \in DOMAIN TickAnswers' :
                         CollectionFailed(i) /\ Entry(i).vmid # Entry(j).vmid
                  /\ \A k \in DOMAIN TickAnswers' :
                         Entry(k).vmid = Entry(j).vmid => ~CollectionFailed(k)) =>
                     /\ Entry(j).vmid \in DOMAIN container_metrics'
                     /\ container_metrics'[Entry(j).vmid].current_metrics = TickSample(j)
                     /\ LET h == container_metrics'[Entry(j).vmid].historical_metrics
                        IN  h[Len(h)] = TickSample(j) ]_vars

(* The collection of the first container failed and the second container's
   sample of this tick is the newest in its buffer *)
C24_Witness ==
    /\ pc = "evaluate"
    /\ Len(TickAnswers) = 2
    /\ TickAnswers[1].kind \in {"api_error", "not_found"}
    /\ TickAnswers[2].kind = "sample"
    /\ Entry(1).vmid # Entry(2).vmid
    /\ TrackedRunning(Entry(2).vmid)
    /\ ticks = 2
    /\ Len(container_metrics[Entry(2).vmid].historical_metrics) = 2
    /\ container_metrics[Entry(2).vmid].current_metrics.cpu_usage_percent
           = TickAnswers[2].cpu

(* C25 as stated: a health probe leaves the state the main loop decides on as
   it was: the containers' sample buffers, the node metrics, the scaling
   history and the active operations are the same after the probe as before. *)
C25_ProbeLeavesDecisionState ==
    [][ probes' = probes + 1 =>
          /\ container_metrics' = container_metrics
          /\ node_metrics' = node_metrics
          /\ scaling_history' = scaling_history
          /\ active_operations' = active_operations ]_vars

----------------------------------------------------------------------------
(* Stopping the daemon (core/daemon.py, AutoscalerDaemon.stop) *)

(* stop(): should_stop is set and main_task is cancelled.  The cancellation
   lands on the await the main loop is suspended at: its sleep, or the
   resize_container call of the operation it is executing.  CancelledError is
   not an Exception, so of _execute_scaling_decision only the finally clause
   runs: the operation leaves active_operations and is not handed to
   record_operation.  The request itself runs in the executor's thread, which
   the cancellation does not reach: the Gateway applies the resize or not. *)
Stop ==
    /\ pc \in {"idle", "sleep", "resizing"}
    /\ pc' = "stopped"
    /\ IF pc = "resizing"
       THEN /\ active_operations' = Del(active_operations, decisions[didx].vmid)
            /\ \E applied \in BOOLEAN :
                   gw' = IF applied
                         THEN [gw EXCEPT
                                  ![decisions[didx].vmid].cores =
                                      resize_log[Len(resize_log)].cpu_cores,
                                  ![decisions[didx].vmid].memory =
                                      resize_log[Len(resize_log)].memory_mb]
                         ELSE gw
       ELSE UNCHANGED <<active_operations, gw>>
    /\ UNCHANGED <<now, config, daemon, node_metrics, container_metrics, scaling_history,
                   tick_gate, decisions, didx, executed_decisions, last_result,
                   resize_log, probes, probe_decisions, resume, gateway, inflight,
                   recorded, ticks, cycles_completed, cycles_failed>>

NextStop ==
    \/ Next
    \/ Stop

SpecStop == Init /\ [][NextStop]_vars

(* C26 as stated: once the daemon is stopped no tick starts, and an operation
   whose resize was in flight when the stop was requested has completed and
   has been recorded in the container's scaling history. *)
C26_StopDrainsOperations ==
    [][ /\ pc = "stopped" => ticks' = ticks
        /\ (pc = "resizing" /\ pc' = "stopped") =>
               /\ Len(recorded') = Len(recorded) + 1
               /\ recorded'[Len(recorded')].decision = decisions[didx]
               /\ decisions[didx].vmid \in DOMAIN scaling_history'
               /\ scaling_history'[decisions[didx].vmid].operation_count =
                      HistoryOf(scaling_history, decisions[didx].vmid).operation_count + 1
      ]_vars

----------------------------------------------------------------------------
(* Reloading the configuration (core/daemon.py, config/manager.py) *)

MaxReloads == 1

(* What the configuration file can hold when SIGHUP arrives: a valid document
   with another container set, dry_run on and host protection off; a document
   SafetyConfig rejects; and one that is not YAML *)
Documents ==
    { [well_formed |-> TRUE, config |-> AutoscalerConfig(OneDisabled, TRUE, FALSE)],
      [well_formed |-> TRUE,
       config |-> [AutoscalerConfig(BothContainers, TRUE, FALSE)
                       EXCEPT !.safety.max_concurrent_operations = 0]],
      [well_formed |-> FALSE, config |-> AutoscalerConfig(OneDisabled, TRUE, FALSE)] }

(* _reload_configuration taking over whatever the file holds *)
_reload_configuration_TakesAny(d, doc, tick) ==
    [config |-> doc.config,
     reloads |-> Append(d.reloads,
                        [outcome |-> IF doc.well_formed
                                        /\ doc.config.safety.max_concurrent_operations >= 1
                                     THEN "reloaded" ELSE "rejected",
                         tick |-> tick])]

(* _reload_configuration on the daemon d: load_config raises
   ConfigurationError for a document that is malformed or fails validation,
   before anything is assigned; otherwise the daemon's config is replaced by
   the new object.  Each reload is noted with the tick count at that time. *)
_reload_configuration(d, doc, tick) ==
    IF doc.well_formed /\ doc.config.safety.max_concurrent_operations >= 1
    THEN [config |-> doc.config,
          reloads |-> Append(d.reloads, [outcome |-> "reloaded", tick |-> tick])]
    ELSE [d EXCEPT !.reloads = Append(@, [outcome |-> "rejected", tick |-> tick])]

(* SIGHUP: the handler's task runs while the main loop is suspended.  The
   collector and the engine keep the configuration object they were
   constructed with. *)
Reload(doc) ==
    /\ pc \in {"idle", "sleep", "resizing"}
    /\ Len(daemon.reloads) < MaxReloads
    /\ daemon' = _reload_configuration(daemon, doc, ticks)
    /\ UNCHANGED <<now, config, gw, node_metrics, container_metrics,
                   active_operations, scaling_history, pc, tick_gate, decisions,
                   didx, executed_decisions, last_result, resize_log, probes,
                   probe_decisions, resume, gateway, ticks, cycles_completed,
                   cycles_failed, recorded, inflight>>

InitReload ==
    Constructed({ AutoscalerConfig(BothContainers, FALSE, TRUE),
                  AutoscalerConfig(OneDisabled, TRUE, TRUE) }, PlainAnswers)

NextReload ==
    \/ Next
    \/ \E doc \in Documents : Reload(doc)

SpecReload == InitReload /\ [][NextReload]_vars

(* C27 as stated: a tick that starts after a successful reload collects the
   enabled containers of the new configuration, and no resize is issued while
   the new configuration says dry_run. *)
C27_TickUsesReloadedConfig ==
    [][ (\E k \in 1..Len(daemon.reloads) : daemon.reloads[k].outcome = "reloaded") =>
          /\ (pc = "idle" /\ pc' = "evaluate") =>
                 Len(TickAnswers') = Len(EnabledContainers(daemon.config))
          /\ (pc = "execute" /\ pc' = "resizing") => ~daemon.config.dry_run ]_vars

(* C28: a reload whose document is malformed or invalid is rejected: the
   daemon keeps its configuration, the collector and the engine keep theirs,
   and the main loop is where it was with its state untouched. *)
C28_FailedReloadRejected ==
    [][ (/\ Len(daemon'.reloads) = Len(daemon.reloads) + 1
         /\ daemon'.reloads[Len(daemon'.reloads)].outcome = "rejected") =>
          /\ daemon'.config = daemon.config
          /\ config' = config
          /\ pc' = pc
          /\ <<node_metrics, container_metrics, active_operations, scaling_history,
               ticks, cycles_completed, cycles_failed>>' =
             <<node_metrics, container_metrics, active_operations, scaling_history,
               ticks, cycles_completed, cycles_failed>> ]_vars

(* A reload was rejected and a later tick has collected the containers of the
   configuration the daemon started with, which it still holds *)
C28_Witness ==
    /\ pc = "evaluate"
    /\ \E k \in 1..Len(daemon.reloads) :
           /\ daemon.reloads[k].outcome = "rejected"
           /\ daemon.reloads[k].tick = 1
    /\ ticks = 2
    /\ daemon.config = config
    /\ Len(TickAnswers) = Len(EnabledContainers(config))

----------------------------------------------------------------------------
(* Loading the container entries of the configuration (config/manager.py) *)

(* What a container entry of the document can say: a vmid, and optionally a
   thresholds section and a limits section that name some of the fields *)
ContainerData ==
    { [vmid |-> v] @@ t @@ l :
          v \in Vmids,
          t \in { <<>> } \cup
                { "thresholds" :> s :
                      s \in { <<>>, [cpu_scale_up |-> 70],
                              [cpu_scale_up |-> 70, memory_scale_down |-> 20] } },
          l \in { <<>> } \cup
                { "limits" :> s :
                      s \in { <<>>, [max_cpu_cores |-> 4],
                              [max_cpu_cores |-> 4, memory_step_mb |-> 128] } } }

(* ConfigManager._parse_container_config: a declared section is merged over
   the configured defaults; for a section that is not declared None is passed
   and ContainerConfig.__post_init__ puts ScalingThresholds() or
   ResourceLimits(), the defaults of the classes, in its place *)
_parse_container_config(container_data, default_thresholds, default_limits) ==
    [vmid |-> container_data.vmid,
     enabled |-> TRUE,
     thresholds |->
         IF "thresholds" \in DOMAIN container_data
         THEN [k \in DOMAIN default_thresholds |->
                  IF k \in DOMAIN container_data.thresholds
                  THEN container_data.thresholds[k] ELSE default_thresholds[k]]
         ELSE [cpu_scale_up |-> 80, cpu_scale_down |-> 30,
               memory_scale_up |-> 85, memory_scale_down |-> 40],
     limits |->
         IF "limits" \in DOMAIN container_data
         THEN [k \in DOMAIN default_limits |->
                  IF k \in DOMAIN container_data.limits
                  THEN container_data.limits[k] ELSE default_limits[k]]
         ELSE [min_cpu_cores |-> 1, max_cpu_cores |-> 8,
               min_memory_mb |-> 512, max_memory_mb |-> 8192,
               cpu_step |-> 1, memory_step_mb |-> 256],
     cooldown_seconds |-> 300,
     evaluation_periods |-> 3]

InitParse ==
    /\ AtRest
    /\ config = AutoscalerConfig(BothContainers, FALSE, TRUE)
    /\ daemon = Daemon(config)
    /\ node_metrics = EmptyDict
    /\ container_metrics = EmptyDict
    /\ pc = "parse"

(* _parse_config handing one entry of `containers` to _parse_container_config
   together with the default_thresholds and default_limits of the document,
   which are the defaults of the classes or the values the document gives *)
Parse(container_data, default_thresholds, default_limits) ==
    /\ pc = "parse"
    /\ pc' = "parsed"
    /\ last_result' =
           [status |-> "parsed",
            container_data |-> container_data,
            default_thresholds |-> default_thresholds,
            default_limits |-> default_limits,
            container_config |->
                _parse_container_config(container_data, default_thresholds,
                                        default_limits)]
    /\ UNCHANGED <<now, config, daemon, gw, node_metrics, container_metrics,
                   active_operations, scaling_history, tick_gate, decisions, didx,
                   executed_decisions, resize_log, probes, probe_decisions,
                   resume, gateway, inflight, recorded, ticks, cycles_completed,
                   cycles_failed>>

(* The validation with the two order tests of ScalingThresholds made
   non-strict *)
ContainerConfig_post_init_NonStrict(c) ==
    LET t == c.thresholds
        l == c.limits
    IN  /\ \A k \in DOMAIN t : 0 < t[k] /\ t[k] <= 100
        /\ ~(t.cpu_scale_up < t.cpu_scale_down)
        /\ ~(t.memory_scale_up < t.memory_scale_down)
        /\ ~(l.min_cpu_cores >= l.max_cpu_cores)
        /\ ~(l.min_memory_mb >= l.max_memory_mb)
        /\ ~(l.cpu_step <= 0)
        /\ ~(l.memory_step_mb <= 0)
        /\ ~(c.cooldown_seconds < 60)
        /\ ~(c.evaluation_periods < 1)

(* ScalingThresholds.__post_init__, ResourceLimits.__post_init__ and
   ContainerConfig.__post_init__ for a container entry with thresholds and
   limits: TRUE when none of them raises ValueError *)
ContainerConfig_post_init(c) ==
    LET t == c.thresholds
        l == c.limits
    IN  /\ \A k \in DOMAIN t : 0 < t[k] /\ t[k] <= 100
        /\ ~(t.cpu_scale_up <= t.cpu_scale_down)
        /\ ~(t.memory_scale_up <= t.memory_scale_down)
        /\ ~(l.min_cpu_cores >= l.max_cpu_cores)
        /\ ~(l.min_memory_mb >= l.max_memory_mb)
        /\ ~(l.cpu_step <= 0)
        /\ ~(l.memory_step_mb <= 0)
        /\ ~(c.cooldown_seconds < 60)
        /\ ~(c.evaluation_periods < 1)

(* Constructing the ContainerConfig of one container entry: the object, or
   the ValueError that _parse_config turns into ConfigurationError *)
Validate(c) ==
    /\ pc = "parse"
    /\ pc' = "validated"
    /\ last_result' =
           IF ContainerConfig_post_init(c)
           THEN [status |-> "accepted", policy |-> c, container_config |-> c]
           ELSE [status |-> "ValueError", policy |-> c]
    /\ UNCHANGED <<now, config, daemon, gw, node_metrics, container_metrics,
                   active_operations, scaling_history, tick_gate, decisions, didx,
                   executed_decisions, resize_log, probes, probe_decisions,
                   resume, gateway, inflight, recorded, ticks, cycles_completed,
                   cycles_failed>>

NextParse ==
    \/ \E container_data \in ContainerData,
          default_thresholds \in { ScalingThresholds,
                                   [ScalingThresholds EXCEPT !.cpu_scale_up = 90] },
          default_limits \in { ResourceLimits,
                               [ResourceLimits EXCEPT !.max_memory_mb = 2048] } :
           Parse(container_data, default_thresholds, default_limits)
    \/ \E t \in [cpu_scale_up : {0, 30, 80}, cpu_scale_down : {30, 80},
                  memory_scale_up : {40, 85, 101}, memory_scale_down : {40, 85}],
          l \in [min_cpu_cores : {1, 3}, max_cpu_cores : {1, 3},
                  min_memory_mb : {512, 1024}, max_memory_mb : {512, 1024},
                  cpu_step : {0, 1}, memory_step_mb : {0, 256}],
          cooldown_seconds \in {59, 60},
          evaluation_periods \in {0, 1} :
           Validate([vmid |-> 101, enabled |-> TRUE, thresholds |-> t, limits |-> l,
                     cooldown_seconds |-> cooldown_seconds,
                     evaluation_periods |-> evaluation_periods])

SpecParse == InitParse /\ [][NextParse]_vars

(* C29 as stated: the thresholds and limits a container is evaluated with are
   the configured defaults with the fields of the container's own section, if
   it declares one, put over them. *)
C29_DefaultsMerged ==
    pc = "parsed" =>
        LET own(section) == IF section \in DOMAIN last_result.container_data
                            THEN last_result.container_data[section] ELSE <<>>
            merged(defaults, section) ==
                [k \in DOMAIN defaults |->
                    IF k \in DOMAIN own(section) THEN own(section)[k] ELSE defaults[k]]
        IN  /\ last_result.container_config.thresholds =
                   merged(last_result.default_thresholds, "thresholds")
            /\ last_result.container_config.limits =
                   merged(last_result.default_limits, "limits")

(* C30 as stated: the snapshot a tick evaluates is the one built from the
   nodes that were online in the tick's collection, and the safety gate of the
   tick closes exactly when it is closed for that snapshot. *)
C30_SnapshotOfOnlineNodes ==
    [][ pc = "evaluate" =>
          LET online == DOMAIN node_metrics \cap inflight["main"].online
              fresh == _build_cluster_metrics([n \in online |-> node_metrics[n]])
          IN  /\ _build_cluster_metrics(node_metrics) = fresh
              /\ tick_gate' = "closed" <=> ~_check_cluster_safety(config.safety, fresh)
      ]_vars

(* C31: a container policy is constructed only if its scale-up thresholds are
   above its scale-down thresholds, its minimum cores and memory are below the
   maximum, its steps are positive, its cooldown is at least 60 seconds and its
   evaluation periods at least 1; any other policy ends in an error and no
   object. *)
C31_AcceptedPoliciesAreValid ==
    pc = "validated" =>
        LET c == last_result.policy
            valid == /\ c.thresholds.cpu_scale_up > c.thresholds.cpu_scale_down
                     /\ c.thresholds.memory_scale_up > c.thresholds.memory_scale_down
                     /\ c.limits.min_cpu_cores < c.limits.max_cpu_cores
                     /\ c.limits.min_memory_mb < c.limits.max_memory_mb
                     /\ c.limits.cpu_step > 0
                     /\ c.limits.memory_step_mb > 0
                     /\ c.cooldown_seconds >= 60
                     /\ c.evaluation_periods >= 1
        IN  /\ last_result.status = "accepted" => valid
            /\ ~valid => /\ last_result.status = "ValueError"
                         /\ "container_config" \notin DOMAIN last_result
            /\ last_result.status = "accepted" => last_result.container_config = c

(* A policy with equal cpu thresholds and otherwise valid values was
   rejected *)
C31_Witness ==
    /\ pc = "validated"
    /\ last_result.status = "ValueError"
    /\ last_result.policy.thresholds.cpu_scale_up
           = last_result.policy.thresholds.cpu_scale_down
    /\ last_result.policy.thresholds.memory_scale_up = 85
    /\ last_result.policy.thresholds.memory_scale_down = 40
    /\ last_result.policy.limits = ResourceLimits
    /\ last_result.policy.cooldown_seconds = 60
    /\ last_result.policy.evaluation_periods = 1

(* C32 as stated: with max_concurrent_operations >= 2 and non-none decisions
   for two different containers in one tick, the resize calls of both are
   outstanding together: the call of the first does not return before the
   call of the second has been issued. *)
C32_OperationsOverlap ==
    [][ (/\ pc = "resizing" /\ pc' = "execute"
         /\ config.safety.max_concurrent_operations >= 2
         /\ \E j \in (didx + 1)..Len(decisions) :
                /\ requires_scaling(decisions[j])
                /\ decisions[j].vmid # decisions[didx].vmid) =>
          \E j \in (didx + 1)..Len(decisions) :
              /\ decisions[j].vmid # decisions[didx].vmid
              /\ decisions[j].vmid \in DOMAIN active_operations ]_vars

----------------------------------------------------------------------------
(* The main loop under the scheduling of the event loop

   The event loop resumes the task of _main_loop whenever the future it awaits
   is done; asyncio.sleep, the executor calls of the Gateway and the semaphore
   all complete, so a step of the loop that can be taken is taken. *)

(* A Gateway whose container 101 is busy or idle and whose container 102 is
   short of memory or moderately loaded; engine with two containers, and a
   dry-run engine with one *)
InitCooldown ==
    Constructed({ AutoscalerConfig(BothContainers, FALSE, FALSE),
                  AutoscalerConfig(OneDisabled, TRUE, TRUE) },
                [nodes |-> { [kind |-> "online", load |-> l] : l \in NodeLoads },
                 containers |->
                     [v \in Vmids |->
                         IF v = 101
                         THEN { Answer("sample", 80, 85), Answer("sample", 30, 40) }
                         ELSE { Answer("sample", 55, 85), Answer("sample", 55, 60) }]])

SpecCooldown == InitCooldown /\ [][Next]_vars /\ WF_vars(Next)

(* C33 as stated: once cooldown_seconds or more have passed since the last
   completed operation of a container (exactly cooldown_seconds included),
   the next tick whose gate is open and in which the container, running and
   with enough samples, still breaches a threshold with room before the bound
   issues a resize for it: the resize log gets a call for the container that
   was issued in that tick. *)
C33_CooldownEnds ==
    \A i \in 1..2, t \in 1..MaxTicks :
        (/\ pc = "evaluate"
         /\ ticks = t
         /\ ~config.dry_run
         /\ _check_cluster_safety(config.safety, _build_cluster_metrics(node_metrics))
         /\ i <= Len(EnabledContainers(config))
         /\ Eligible(Entry(i))
         /\ Entry(i).vmid \in DOMAIN scaling_history
         /\ scaling_history[Entry(i).vmid].last_scaling_time # None
         /\ now - scaling_history[Entry(i).vmid].last_scaling_time
                >= Entry(i).cooldown_seconds
         /\ HasRoom(Entry(i), container_metrics[Entry(i).vmid],
                    FirstRule(Entry(i), container_metrics[Entry(i).vmid])))
        ~> (\E k \in 1..Len(resize_log) :
                resize_log[k].vmid = Entry(i).vmid /\ resize_log[k].tick = t)

(* A resize is issued in the second tick for a container whose last operation
   completed exactly cooldown_seconds before *)
C33_Witness ==
    /\ pc = "resizing"
    /\ ticks = 2
    /\ decisions[didx].vmid \in DOMAIN scaling_history
    /\ now - scaling_history[decisions[didx].vmid].last_scaling_time
           = Entry(didx).cooldown_seconds

(* C34: whenever evaluate_and_scale has returned or raised, or was cancelled
   while a resize was in flight, active_operations is empty: the entry of an
   operation is removed whether the Gateway call succeeded, failed or was
   cancelled. *)
C34_NoOperationLeftBehind ==
    pc \in {"idle", "sleep", "stopped"} => active_operations = EmptyDict

(* The daemon was stopped while the second resize of the run was in flight,
   after a first one had failed: the cancelled operation left no entry *)
C34_Witness ==
    /\ pc = "stopped"
    /\ Len(resize_log) = 2
    /\ Len(recorded) = 1
    /\ recorded[1].success = "False"
    /\ active_operations = EmptyDict

----------------------------------------------------------------------------
(* The fan-out of _collect_container_metrics (metrics/collector.py)

   Each call of _collect_container_metrics creates its own semaphore and
   gathers one collect_with_semaphore per enabled entry; the main loop and the
   health check loop call it from two tasks. *)

(* Six enabled entries, one more than the semaphore admits *)
InitFanOut ==
    /\ now = 0
    /\ config = AutoscalerConfig(BothContainers \o BothContainers \o BothContainers,
                                 FALSE, TRUE)
    /\ gateway = [nodes |-> { [kind |-> "online", load |-> NodeMetrics(50, 50)] },
                  containers |->
                      [v \in Vmids |->
                          IF v = 101
                          THEN { Answer("sample", 80, 85), Answer("not_running", 0, 0) }
                          ELSE { Answer("sample", 55, 85) }]]
    /\ gw = [v \in Vmids |-> [node |-> "pve1", cores |-> 2, memory |-> 768]]
    /\ node_metrics = EmptyDict
    /\ container_metrics = EmptyDict
    /\ active_operations = EmptyDict
    /\ scaling_history = EmptyDict
    /\ pc = "collect"
    /\ tick_gate = "none"
    /\ decisions = <<>>
    /\ didx = 1
    /\ executed_decisions = <<>>
    /\ last_result = NoResult
    /\ resize_log = <<>>
    /\ probes = 0
    /\ probe_decisions = <<>>
    /\ resume = "none"
    /\ ticks = 0
    /\ cycles_completed = 0
    /\ cycles_failed = 0
    /\ recorded = <<>>
    /\ inflight = NoCollection
    /\ daemon = Daemon(config)

(* _collect_container_metrics up to its gather: the nodes are collected, the
   first FanOutLimit entries acquire the semaphore and send their requests,
   the others wait in acquire(); the entries of one container are answered
   alike *)
StartFanOut(caller) ==
    /\ pc = "collect"
    /\ ~inflight[caller].busy
    /\ ticks + probes < MaxCollects
    /\ IF caller = "main"
       THEN ticks' = ticks + 1 /\ UNCHANGED probes
       ELSE probes' = probes + 1 /\ UNCHANGED ticks
    /\ LET enabled == EnabledContainers(config)
       IN  \E na \in [Nodes -> gateway.nodes], a \in [Vmids -> UNION {gateway.containers[v] : v \in Vmids}] :
               /\ \A v \in Vmids : a[v] \in gateway.containers[v]
               /\ node_metrics' = _collect_node_metrics(node_metrics, na)
               /\ inflight' =
                      [inflight EXCEPT ![caller] =
                          [busy |-> TRUE,
                           online |-> ListedOnline(na),
                           answers |-> [i \in 1..Len(enabled) |-> a[enabled[i].vmid]],
                           holding |-> 1..Min(Len(enabled), FanOutLimit),
                           queued |-> (FanOutLimit + 1)..Len(enabled)]]
    /\ UNCHANGED <<now, config, daemon, gw, container_metrics, active_operations,
                   scaling_history, pc, tick_gate, decisions, didx,
                   executed_decisions, last_result, resize_log,
                   probe_decisions, resume, gateway, cycles_completed,
                   cycles_failed, recorded>>

(* One _collect_single_container_metrics is answered, writes what it was
   answered and leaves the `async with`: release() hands the semaphore to the
   entry that waited longest; after the last entry the gather returns *)
FinishOne(caller, i) ==
    /\ pc = "collect"
    /\ i \in inflight[caller].holding
    /\ container_metrics' =
           _collect_single_container_metrics(container_metrics, gw,
                                             EnabledContainers(config)[i],
                                             inflight[caller].answers[i])
    /\ LET c == inflight[caller]
           woken == IF c.queued = {} THEN {}
                    ELSE {CHOOSE q \in c.queued : \A r \in c.queued : q <= r}
       IN  inflight' =
               IF (c.holding \ {i}) \cup woken = {}
               THEN [inflight EXCEPT ![caller].busy = FALSE,
                                     ![caller].holding = {}]
               ELSE [inflight EXCEPT ![caller].holding = (c.holding \ {i}) \cup woken,
                                     ![caller].queued = c.queued \ woken]
    /\ UNCHANGED <<now, config, daemon, gw, node_metrics, active_operations,
                   scaling_history, tick_gate, decisions, didx, pc,
                   executed_decisions, last_result, resize_log, probes,
                   probe_decisions, resume, gateway, ticks, cycles_completed,
                   cycles_failed, recorded>>

NextFanOut ==
    \/ \E caller \in Callers : StartFanOut(caller)
    \/ \E caller \in Callers, i \in 1..(FanOutLimit + 1) : FinishOne(caller, i)

SpecFanOut == InitFanOut /\ [][NextFanOut]_vars

(* C35 as stated: at any instant at most 5 per-container collections hold a
   slot and have requests in flight against the Gateway, also while the
   collection of the main loop and the collection of the health check
   overlap. *)
C35_FanOutBound ==
    Cardinality(inflight["main"].holding) + Cardinality(inflight["probe"].holding)
        <= FanOutLimit

(* A collection of six entries has five of them in flight and one waiting *)
C35_Witness ==
    \E caller \in Callers :
        /\ inflight[caller].busy
        /\ Cardinality(inflight[caller].holding) = FanOutLimit
        /\ Cardinality(inflight[caller].queued) = 1

----------------------------------------------------------------------------
(* C36 as stated: every resize_container call carries cores within
   [min_cpu_cores, max_cpu_cores] and memory within [min_memory_mb,
   max_memory_mb] of the container's policy, whatever cores and memory the
   Gateway reports for the container, values outside the policy's bounds
   included. *)
C36_ResizeWithinLimits ==
    \A k \in 1..Len(resize_log) : \A limits \in LimitsOf(resize_log[k].vmid) :
        /\ limits.min_cpu_cores <= resize_log[k].cpu_cores
        /\ resize_log[k].cpu_cores <= limits.max_cpu_cores
        /\ limits.min_memory_mb <= resize_log[k].memory_mb
        /\ resize_log[k].memory_mb <= limits.max_memory_mb

(* C37 as stated: a resize is issued for a container in a tick only if that
   tick's collection appended a fresh sample to its ring buffer; a container
   whose collection failed, returned no time-series points, or whose node was
   not located in the tick is not scaled on the samples of earlier ticks. *)
C37_ResizeNeedsFreshSample ==
    [][ (pc = "execute" /\ pc' = "resizing") =>
          \E j \in 1..Len(TickAnswers) :
              /\ Entry(j).vmid = decisions[didx].vmid
              /\ TickAnswers[j].kind = "sample" ]_vars

----------------------------------------------------------------------------
(* C38: in dry-run mode applying a decision that requires scaling changes
   neither active_operations nor scaling_history and records nothing; and when
   the next tick collects a sample that leaves the container's averages,
   cores and memory as they were, the decision generated for it is the one
   the previous tick returned, which the tick produces when its gate is
   open. *)
C38_DryRunRepeats ==
    [][ config.dry_run =>
          /\ (pc = "execute" /\ didx' = didx + 1 /\ requires_scaling(decisions[didx])) =>
                 /\ active_operations' = active_operations
                 /\ scaling_history' = scaling_history
                 /\ recorded' = recorded
          /\ (pc = "idle" /\ pc' = "evaluate") =>
                 \A i \in 1..Len(last_result.decisions) :
                     LET cc == Entry(i)
                         n == cc.evaluation_periods
                         cm == container_metrics[cc.vmid]
                         cm2 == container_metrics'[cc.vmid]
                     IN  (/\ requires_scaling(last_result.decisions[i])
                          /\ TickAnswers'[i].kind = "sample"
                          /\ cc.vmid \in DOMAIN container_metrics'
                          /\ CpuSum(cm2, n) = CpuSum(cm, n)
                          /\ MemSum(cm2, n) = MemSum(cm, n)
                          /\ cm2.historical_metrics[Len(cm2.historical_metrics)].cpu_cores
                                 = cm.historical_metrics[Len(cm.historical_metrics)].cpu_cores
                          /\ cm2.historical_metrics[Len(cm2.historical_metrics)].memory_total_mb
                                 = cm.historical_metrics[Len(cm.historical_metrics)].memory_total_mb) =>
                         _generate_scaling_decisions(config, container_metrics',
                                                     active_operations', scaling_history',
                                                     now')[i]
                             = last_result.decisions[i]
          /\ (pc = "evaluate" /\ pc' = "execute") =>
                 decisions' = _generate_scaling_decisions(config, container_metrics,
                                                          active_operations,
                                                          scaling_history, now)
      ]_vars

(* The second tick of a dry run, a monitoring interval after the first, has
   decided to scale a container on a sample equal to the one of the first
   tick, which completed; nothing was recorded *)
C38_Witness ==
    /\ config.dry_run
    /\ ticks = 2
    /\ cycles_completed = 1
    /\ pc = "execute"
    /\ requires_scaling(decisions[1])
    /\ LET h == container_metrics[decisions[1].vmid].historical_metrics
       IN  Len(h) = 2 /\ h[1] = h[2]
    /\ scaling_history = EmptyDict
    /\ active_operations = EmptyDict

----------------------------------------------------------------------------
(* C39: with host protection enabled, a tick whose snapshot holds no node
   metrics at all finds both availability percentages 0 and the gate closed:
   evaluate_and_scale returns the empty list and no resize is issued in the
   tick. *)
C39_EmptySnapshotClosesGate ==
    [][ (/\ pc = "evaluate"
         /\ config.safety.enable_host_protection
         /\ DOMAIN node_metrics = {}) =>
          LET availability ==
                  get_resource_availability(_build_cluster_metrics(node_metrics))
          IN  /\ availability.cpu_available_percent.num = 0
              /\ availability.memory_available_percent.num = 0
              /\ ~_check_cluster_safety(config.safety, _build_cluster_metrics(node_metrics))
              /\ tick_gate' = "closed"
              /\ pc' = "sleep"
              /\ last_result' = [status |-> "ok", decisions |-> <<>>]
              /\ resize_log' = resize_log ]_vars

(* A tick of a protected engine ended at the closed gate with no node in the
   snapshot, although container 101 was running, above its cpu threshold and
   below its maximum *)
C39_Witness ==
    /\ pc = "sleep"
    /\ tick_gate = "closed"
    /\ config.safety.enable_host_protection
    /\ ~config.dry_run
    /\ DOMAIN node_metrics = {}
    /\ TrackedRunning(101)
    /\ Len(container_metrics[101].historical_metrics) >= 1
    /\ FirstRule(config.containers[1], container_metrics[101]) = "scale_up_cpu"
    /\ HasRoom(config.containers[1], container_metrics[101], "scale_up_cpu")
    /\ resize_log = <<>>

----------------------------------------------------------------------------
(* C40: a health check issues no resize call and changes neither
   scaling_history nor active_operations nor the containers' resources,
   neither when it starts and generates its decisions nor when it returns,
   also when its decisions require scaling and when it runs while the main
   loop waits for a resize call. *)
C40_ProbeNeverScales ==
    [][ (probes' = probes + 1 \/ pc = "health_check") =>
          /\ resize_log' = resize_log
          /\ scaling_history' = scaling_history
          /\ active_operations' = active_operations
          /\ recorded' = recorded
          /\ gw' = gw ]_vars

(* A health check that ran while a resize of the main loop was in flight
   decided that another container requires scaling; the only call issued is
   the one of the main loop *)
C40_Witness ==
    /\ pc = "health_check"
    /\ resume = "resizing"
    /\ \E i \in 1..Len(probe_decisions) :
           /\ requires_scaling(probe_decisions[i])
           /\ probe_decisions[i].vmid \notin DOMAIN active_operations
    /\ Len(resize_log) = 1
    /\ DOMAIN active_operations = {resize_log[1].vmid}

====
